---- MODULE Spec2Model ----
(***************************************************************************)
(* Pokebot: the spawn/catch engine (GameEngine), the administrative spawn  *)
(* and clear endpoints, and the Postgres store they share.                 *)
(*                                                                         *)
(* Time is counted in whole seconds.  Rates are integers: base_rate in     *)
(* hundredths, ball modifiers in tenths, rolls and catch chances in        *)
(* thousandths, so base_rate * ballMod is already in thousandths.          *)
(*                                                                         *)
(* The store is Postgres at READ COMMITTED.  A transaction's writes become *)
(* visible at COMMIT; SELECT ... FOR UPDATE and UPDATE wait while the row  *)
(* they target is locked by another transaction and are evaluated on the   *)
(* committed rows when they get it; a foreign key is checked by the        *)
(* statement that writes the referencing column.                           *)
(***************************************************************************)
EXTENDS Integers, Sequences, FiniteSets, TLC

VARIABLES
    clock,      \* wall clock (Date.now() / new Date()), seconds
    pokemon,    \* table pokemon: id -> [rarity, base_rate]
    spawns,     \* table spawns: sequence of rows, the row's id is its index
    users,      \* table users: set of ids
    pokedex,    \* table pokedex: (user_id, pokemon_id) -> [count, shiny_count]
    cooldowns,  \* GameEngine.cooldowns: userId -> lastAttemptTs
    calls,      \* attemptCatch invocations: locals, position, outcome
    spawners,   \* spawnOnce invocations (scheduler cycle, POST /admin/spawn)
    clears,     \* POST /admin/clear invocations
    lastPass,   \* history: userId -> start of the user's latest attempt that
                \* passed the cooldown check
    board,      \* GameEngine.leaderboard: the last query and its rows
    sender,     \* createChatSender: q, sending, the drain loop
    conn,       \* kickConnector: ws, stopped, attempts, the reconnect timer
    auto,       \* GameEngine auto spawner: running, _spawnerTimer, the cycle
    tokens,     \* table tokens: the kick:* keys and their values
    mgr         \* tokenManager: the clock, the token endpoint, the invocations;
                \* the chat sender's cachedChatroomId, its lookups, and
                \* POST /admin/set-chatroom

vars == <<clock, pokemon, spawns, users, pokedex, cooldowns, calls, spawners, clears, lastPass,
          board, sender, conn, auto, tokens, mgr>>

\* the state of the components outside the spawn/catch engine
ext == <<board, sender, conn, auto, tokens, mgr>>

\* the state of the spawn/catch engine and its store
engine == <<clock, pokemon, spawns, users, pokedex, cooldowns, calls, spawners, clears, lastPass>>

store == <<spawns, users, pokedex>>

----------------------------------------------------------------------------
(* Bounds of the model *)

MaxTicks == 2       \* ticks of the clock after the start
MaxSpawns == 3      \* spawn rows ever inserted
MaxMsgs == 3        \* messages send() accepts
MaxConns == 6       \* sockets the connector ever creates
MaxFrames == 2      \* frames the connector ever receives
MaxChains == 2      \* timer chains of the auto spawner alive at once
MaxSpecies == 3     \* rows of the catalog the draw is checked over

(* Configuration of the engine (constructor options) *)

cooldownSeconds == 5
spawnDuration == 2  \* SPAWN_DURATION, configured short so that expiry is reached

Participants == {"alice", "bob"}    \* lower-cased chat usernames
NoUser == "-"                       \* SQL NULL of spawns.captured_by
CallIds == {"c1", "c2", "c3"}       \* attemptCatch invocations, in the order they begin
SpawnerIds == {"scheduler", "admin"}
ClearIds == {"clear"}

Max(a, b) == IF a >= b THEN a ELSE b
Min(a, b) == IF a <= b THEN a ELSE b

----------------------------------------------------------------------------
(* Catalog & rarity model *)

\* baseRates, in hundredths
BaseRate(rarity) ==
    CASE rarity = "common" -> 70
      [] rarity = "uncommon" -> 25
      [] rarity = "rare" -> 8
      [] rarity = "legendary" -> 1

\* rows of table pokemon as ensureSamplePokemon inserts them
Seed(rarities) ==
    [i \in 1..Len(rarities) |-> [rarity |-> rarities[i], base_rate |-> BaseRate(rarities[i])]]

\* mutant: the bucket built with ten slots per unit of weight
Times_Tenths(rarity) ==
    LET weight10 == CASE rarity = "common" -> 10
                      [] rarity = "uncommon" -> 6
                      [] rarity = "rare" -> 2
                      [] rarity = "legendary" -> 1      \* Math.round(0.5)
                      [] OTHER -> 1
    IN  Max(1, weight10)

\* Math.max(1, Math.round(weight * 100)) of the tier
Times(rarity) ==
    LET weight100 == CASE rarity = "common" -> 100
                       [] rarity = "uncommon" -> 60
                       [] rarity = "rare" -> 20
                       [] rarity = "legendary" -> 5
                       [] OTHER -> 10
    IN  Max(1, weight100)

RECURSIVE BucketOf(_, _)
\* the bucket spawnOnce builds: each row's id pushed Times(rarity) times, in row order
BucketOf(rows, n) ==
    IF n = 0 THEN <<>>
    ELSE BucketOf(rows, n - 1) \o [k \in 1..Times(rows[n].rarity) |-> n]

Bucket == BucketOf(pokemon, Len(pokemon))

\* { pokeball: 1.0, greatball: 1.5, ultra: 2.0 }[ball] ?? 1.0, in tenths
BallMod(ball) ==
    CASE ball = "pokeball" -> 10
      [] ball = "greatball" -> 15
      [] ball = "ultra" -> 20
      [] OTHER -> 10

\* mutant: the product is not capped
CatchChance_NoCap(base_rate, ball) == base_rate * BallMod(ball)

\* Math.min(0.99, spawn.base_rate * ballMod), in thousandths
CatchChance(base_rate, ball) == Min(990, base_rate * BallMod(ball))

----------------------------------------------------------------------------
(* Store queries *)

\* mutant: the query compares the creation time in place of the expiry
ActiveRows_BySpawnedAt(t) ==
    {i \in 1..Len(spawns) : spawns[i].captured_by = NoUser /\ spawns[i].spawned_at > t}

\* mutant: the query does not filter on captured_by
ActiveRows_AnyCaptor(t) ==
    {i \in 1..Len(spawns) : spawns[i].expires_at > t}

\* WHERE s.captured_by IS NULL AND s.expires_at > $1
ActiveRows(t) ==
    {i \in 1..Len(spawns) : spawns[i].captured_by = NoUser /\ spawns[i].expires_at > t}

\* ... ORDER BY s.spawned_at DESC LIMIT 1: the rows that can come first
TopActive(t) ==
    {i \in ActiveRows(t) : \A j \in ActiveRows(t) : spawns[j].spawned_at <= spawns[i].spawned_at}

\* a transaction of attemptCatch holds the row from its SELECT ... FOR UPDATE
\* until its COMMIT or ROLLBACK is executed
Locked(i) ==
    \E c \in CallIds : calls[c].spawn = i
                        /\ calls[c].pc \in {"locked", "update", "rollback", "aborted"}

\* this.cooldowns.get(userId) ?? 0
CooldownGet(u) == IF u \in DOMAIN cooldowns THEN cooldowns[u] ELSE 0

\* this.cooldowns.set(userId, nowMs)
CooldownSet(u, t) == [x \in DOMAIN cooldowns \cup {u} |-> IF x = u THEN t ELSE cooldowns[x]]

NoRes == [ok |-> FALSE, reason |-> "none", spawnId |-> 0, pokemon |-> 0, shiny |-> FALSE,
          roll |-> 0, catchChance |-> 0]

InitCall == [pc |-> "idle", userId |-> NoUser, nowMs |-> 0, now |-> 0, spawn |-> 0,
             ball |-> "", roll |-> 0, catchChance |-> 0, isShiny |-> FALSE,
             captureAt |-> 0, res |-> NoRes]

\* what is left of an invocation once it has returned or thrown
Returned(c, res) ==
    [InitCall EXCEPT !.pc = "done", !.userId = calls[c].userId, !.res = res]

----------------------------------------------------------------------------
(* The capture transaction: the statements of the success branch, in the
   order the code issues them, each checked against the store as the
   transaction sees it. *)

\* mutant: the capture without the collection upsert
CaptureStatements_NoUpsert == <<"update_spawn", "insert_user">>

CaptureStatements == <<"update_spawn", "insert_user", "upsert_pokedex">>

\* mutant: on conflict shiny_count = EXCLUDED.shiny_count
UpsertPokedex_ShinyReplaced(pdx, key, shiny) ==
    IF key \in DOMAIN pdx
    THEN [pdx EXCEPT ![key].count = @ + 1, ![key].shiny_count = shiny]
    ELSE [k \in DOMAIN pdx \cup {key} |->
            IF k = key THEN [count |-> 1, shiny_count |-> shiny] ELSE pdx[k]]

\* mutant: on conflict the row is overwritten with the inserted values
UpsertPokedex_Overwrite(pdx, key, shiny) ==
    [k \in DOMAIN pdx \cup {key} |->
        IF k = key THEN [count |-> 1, shiny_count |-> shiny] ELSE pdx[k]]

\* INSERT INTO pokedex ... VALUES ($1, $2, 1, $3) ON CONFLICT (user_id, pokemon_id)
\* DO UPDATE SET count = pokedex.count + 1,
\*               shiny_count = pokedex.shiny_count + EXCLUDED.shiny_count
UpsertPokedex(pdx, key, shiny) ==
    IF key \in DOMAIN pdx
    THEN [pdx EXCEPT ![key].count = @ + 1, ![key].shiny_count = @ + shiny]
    ELSE [k \in DOMAIN pdx \cup {key} |->
            IF k = key THEN [count |-> 1, shiny_count |-> shiny] ELSE pdx[k]]

\* one statement applied to st = [spawns, users, pokedex, err]
Execute(stmt, st, c) ==
    LET u == calls[c].userId
        i == calls[c].spawn
        key == <<u, st.spawns[i].pokemon_id>>
        shiny == IF calls[c].isShiny THEN 1 ELSE 0
    IN  CASE stmt = "update_spawn" ->
                \* spawns.captured_by REFERENCES users(id)
                IF u \notin st.users THEN [st EXCEPT !.err = TRUE]
                ELSE [st EXCEPT !.spawns[i].captured_by = u,
                                !.spawns[i].capture_at = calls[c].captureAt]
          [] stmt = "insert_user" ->
                \* ON CONFLICT (id) DO NOTHING
                [st EXCEPT !.users = st.users \cup {u}]
          [] stmt = "upsert_pokedex" ->
                \* pokedex.user_id REFERENCES users(id)
                IF u \notin st.users THEN [st EXCEPT !.err = TRUE]
                ELSE [st EXCEPT !.pokedex = UpsertPokedex(st.pokedex, key, shiny)]

RECURSIVE RunTxn(_, _, _, _)
\* the first n statements; the first error aborts the rest
RunTxn(stmts, n, st, c) ==
    IF n = 0 THEN st
    ELSE LET before == RunTxn(stmts, n - 1, st, c)
         IN  IF before.err THEN before ELSE Execute(stmts[n], before, c)

CaptureTxn(c) ==
    RunTxn(CaptureStatements, Len(CaptureStatements),
           [spawns |-> spawns, users |-> users, pokedex |-> pokedex, err |-> FALSE], c)

----------------------------------------------------------------------------
(* GameEngine.attemptCatch *)

\* the invocations are named in the order they begin
Earlier(d, c) == <<d, c>> \in {<<"c1", "c2">>, <<"c1", "c3">>, <<"c2", "c3">>}

\* cooldown check
CooldownCheck(c, u) ==
    /\ calls[c].pc = "idle"
    /\ \A d \in CallIds : Earlier(d, c) => calls[d].pc # "idle"
    /\ LET nowMs == clock
           last == CooldownGet(u)
       IN  IF nowMs - last < cooldownSeconds
           THEN calls' = [calls EXCEPT ![c] =
                    [InitCall EXCEPT !.pc = "done", !.userId = u,
                                     !.res = [NoRes EXCEPT !.reason = "cooldown"]]]
           ELSE calls' = [calls EXCEPT ![c] =
                    [InitCall EXCEPT !.pc = "begin", !.userId = u, !.nowMs = nowMs]]
    /\ lastPass' = IF calls'[c].pc = "begin"
                   THEN [x \in DOMAIN lastPass \cup {u} |-> IF x = u THEN clock ELSE lastPass[x]]
                   ELSE lastPass

\* attemptCatch(userId, opts) is entered
Start(c, u) ==
    /\ CooldownCheck(c, u)
    /\ UNCHANGED <<clock, pokemon, spawns, users, pokedex, cooldowns, spawners, clears, ext>>

\* pool.connect(), BEGIN, now = new Date(); the SELECT is sent
Begin(c) ==
    /\ calls[c].pc = "begin"
    /\ calls' = [calls EXCEPT ![c].pc = "select", ![c].now = clock]
    /\ UNCHANGED <<clock, pokemon, spawns, users, pokedex, cooldowns, spawners, clears, lastPass, ext>>

\* the store executes SELECT ... FOR UPDATE
Select(c) ==
    /\ calls[c].pc = "select"
    /\ LET cand == TopActive(calls[c].now)
       IN  \/ /\ cand = {}
              /\ calls' = [calls EXCEPT ![c].pc = "norow", ![c].now = 0]
           \/ \E i \in cand :
                /\ ~Locked(i)
                /\ calls' = [calls EXCEPT ![c].pc = "locked", ![c].spawn = i, ![c].now = 0]
    /\ UNCHANGED <<clock, pokemon, spawns, users, pokedex, cooldowns, spawners, clears, lastPass, ext>>

\* rowCount === 0: ROLLBACK, cooldowns.set, return no_spawn
ReturnNoSpawn(c) ==
    /\ calls[c].pc = "norow"
    /\ calls' = [calls EXCEPT ![c] = Returned(c, [NoRes EXCEPT !.reason = "no_spawn"])]
    /\ cooldowns' = CooldownSet(calls[c].userId, calls[c].nowMs)
    /\ UNCHANGED <<clock, pokemon, spawns, users, pokedex, spawners, clears, lastPass, ext>>

\* catch chance, the two draws, the branch
Roll(c, ball, roll, isShiny) ==
    /\ calls[c].pc = "locked"
    /\ LET spawn == spawns[calls[c].spawn]
           catchChance == CatchChance(pokemon[spawn.pokemon_id].base_rate, ball)
       IN  calls' = [calls EXCEPT ![c].ball = ball, ![c].roll = roll,
                                  ![c].catchChance = catchChance, ![c].isShiny = isShiny,
                                  ![c].captureAt = IF roll < catchChance THEN clock ELSE 0,
                                  ![c].pc = IF roll < catchChance THEN "update" ELSE "rollback"]
    /\ UNCHANGED <<clock, pokemon, spawns, users, pokedex, cooldowns, spawners, clears, lastPass, ext>>

\* UPDATE spawns, INSERT users, upsert pokedex, COMMIT
CommitCapture(c) ==
    /\ calls[c].pc = "update"
    /\ LET out == CaptureTxn(c)
       IN  /\ ~out.err
           /\ spawns' = out.spawns
           /\ users' = out.users
           /\ pokedex' = out.pokedex
    /\ calls' = [calls EXCEPT ![c].pc = "committed"]
    /\ UNCHANGED <<clock, pokemon, cooldowns, spawners, clears, lastPass, ext>>

\* a statement of the transaction raises: nothing of it is kept
FailCapture(c) ==
    /\ calls[c].pc = "update"
    /\ CaptureTxn(c).err
    /\ calls' = [calls EXCEPT ![c].pc = "aborted"]
    /\ UNCHANGED <<clock, pokemon, spawns, users, pokedex, cooldowns, spawners, clears, lastPass, ext>>

\* after COMMIT: cooldowns.set, return ok
ReturnOk(c) ==
    /\ calls[c].pc = "committed"
    /\ calls' = [calls EXCEPT ![c] =
            Returned(c, [NoRes EXCEPT !.ok = TRUE, !.reason = "",
                                      !.spawnId = calls[c].spawn,
                                      !.pokemon = spawns[calls[c].spawn].pokemon_id,
                                      !.shiny = calls[c].isShiny])]
    /\ cooldowns' = CooldownSet(calls[c].userId, calls[c].nowMs)
    /\ UNCHANGED <<clock, pokemon, spawns, users, pokedex, spawners, clears, lastPass, ext>>

\* mutant: the participant is upserted ahead of the roll and the failed
\* branch commits
ReturnFailed_Commits(c) ==
    /\ calls[c].pc = "rollback"
    /\ calls' = [calls EXCEPT ![c] =
            Returned(c, [NoRes EXCEPT !.reason = "failed", !.roll = calls[c].roll,
                                      !.catchChance = calls[c].catchChance])]
    /\ cooldowns' = CooldownSet(calls[c].userId, calls[c].nowMs)
    /\ users' = users \cup {calls[c].userId}
    /\ UNCHANGED <<clock, pokemon, spawns, pokedex, spawners, clears, lastPass, ext>>

\* else branch: ROLLBACK, cooldowns.set, return failed
ReturnFailed(c) ==
    /\ calls[c].pc = "rollback"
    /\ calls' = [calls EXCEPT ![c] =
            Returned(c, [NoRes EXCEPT !.reason = "failed", !.roll = calls[c].roll,
                                      !.catchChance = calls[c].catchChance])]
    /\ cooldowns' = CooldownSet(calls[c].userId, calls[c].nowMs)
    /\ UNCHANGED <<clock, pokemon, spawns, users, pokedex, spawners, clears, lastPass, ext>>

\* catch (err): ROLLBACK, throw err; finally release
Throw(c) ==
    /\ calls[c].pc = "aborted"
    /\ calls' = [calls EXCEPT ![c] = Returned(c, [NoRes EXCEPT !.reason = "threw"])]
    /\ UNCHANGED <<clock, pokemon, spawns, users, pokedex, cooldowns, spawners, clears, lastPass, ext>>

----------------------------------------------------------------------------
(* GameEngine.spawnOnce, called by the scheduler's cycle and by POST /admin/spawn *)

InitSpawner == [pc |-> "idle", pokemonId |-> 0, now |-> 0, pid |-> 0, spawnedAt |-> 0,
                res |-> 0, rowsAtStart |-> 0, threw |-> FALSE]

\* spawnOnce(pokemonId) is entered; getActiveSpawn takes now and sends its query.
\* rowsAtStart records how many spawn rows existed when the call began.
EnterSpawnOnce(s, pokemonId) ==
    /\ spawners[s].pc \in {"idle", "done"}
    /\ spawners' = [spawners EXCEPT ![s] =
            [InitSpawner EXCEPT !.pc = "check", !.pokemonId = pokemonId, !.now = clock,
                                !.rowsAtStart = Len(spawns)]]

SpawnStart(s, pokemonId) ==
    /\ EnterSpawnOnce(s, pokemonId)
    /\ UNCHANGED <<clock, pokemon, spawns, users, pokedex, cooldowns, calls, clears, lastPass, ext>>

\* the store executes getActiveSpawn's query; if (existing) return null
SpawnCheck(s) ==
    /\ spawners[s].pc = "check"
    /\ LET existing == TopActive(spawners[s].now)
       IN  IF existing # {}
           THEN spawners' = [spawners EXCEPT ![s] =
                    [InitSpawner EXCEPT !.pc = "done", !.rowsAtStart = spawners[s].rowsAtStart]]
           ELSE IF spawners[s].pokemonId # 0
           THEN spawners' = [spawners EXCEPT ![s].pc = "insert",
                                             ![s].pid = spawners[s].pokemonId,
                                             ![s].spawnedAt = clock]
           ELSE spawners' = [spawners EXCEPT ![s].pc = "pick"]
    /\ UNCHANGED <<clock, pokemon, spawns, users, pokedex, cooldowns, calls, clears, lastPass, ext>>

\* the rarity-weighted pick: bucket[Math.floor(Math.random() * bucket.length)]
SpawnPick(s, k) ==
    /\ spawners[s].pc = "pick"
    /\ IF Len(pokemon) = 0
       THEN spawners' = [spawners EXCEPT ![s] = [InitSpawner EXCEPT !.pc = "done"]]
       ELSE /\ k \in 1..Len(Bucket)
            /\ spawners' = [spawners EXCEPT ![s].pc = "insert",
                                            ![s].pid = Bucket[k],
                                            ![s].spawnedAt = clock]
    /\ UNCHANGED <<clock, pokemon, spawns, users, pokedex, cooldowns, calls, clears, lastPass, ext>>

\* INSERT INTO spawns; the row read back is returned
SpawnInsert(s) ==
    /\ spawners[s].pc = "insert"
    /\ spawns' = Append(spawns, [pokemon_id |-> spawners[s].pid,
                                 spawned_at |-> spawners[s].spawnedAt,
                                 expires_at |-> spawners[s].spawnedAt + spawnDuration,
                                 captured_by |-> NoUser, capture_at |-> 0])
    /\ spawners' = [spawners EXCEPT ![s] =
            [InitSpawner EXCEPT !.pc = "done", !.res = Len(spawns) + 1]]
    /\ UNCHANGED <<clock, pokemon, users, pokedex, cooldowns, calls, clears, lastPass, ext>>

\* a query of spawnOnce is rejected by the store: spawnOnce throws
SpawnFail(s) ==
    /\ spawners[s].pc \in {"check", "pick", "insert"}
    /\ spawners' = [spawners EXCEPT ![s] =
            [InitSpawner EXCEPT !.pc = "done", !.threw = TRUE,
                                !.rowsAtStart = spawners[s].rowsAtStart]]
    /\ UNCHANGED <<clock, pokemon, spawns, users, pokedex, cooldowns, calls, clears, lastPass, ext>>

----------------------------------------------------------------------------
(* POST /admin/clear *)

ClearStart(k) ==
    /\ clears[k].pc = "idle"
    /\ clears' = [clears EXCEPT ![k] = [pc |-> "update", now |-> clock]]
    /\ UNCHANGED <<clock, pokemon, spawns, users, pokedex, cooldowns, calls, spawners, lastPass, ext>>

\* UPDATE spawns SET expires_at = $1 WHERE captured_by IS NULL AND expires_at > $1
ClearUpdate(k) ==
    /\ clears[k].pc = "update"
    /\ LET hit == ActiveRows(clears[k].now)
       IN  /\ \A i \in hit : ~Locked(i)
           /\ spawns' = [i \in 1..Len(spawns) |->
                            IF i \in hit THEN [spawns[i] EXCEPT !.expires_at = clears[k].now]
                            ELSE spawns[i]]
    /\ clears' = [clears EXCEPT ![k] = [pc |-> "idle", now |-> 0]]
    /\ UNCHANGED <<clock, pokemon, users, pokedex, cooldowns, calls, spawners, lastPass, ext>>

----------------------------------------------------------------------------
(* GameEngine.leaderboard *)

InitBoard == [limit |-> 0, rows |-> <<>>, asked |-> FALSE]

\* SUM(pdx.count), SUM(pdx.shiny_count) over the collection entries of one group
RECURSIVE SumOf(_, _)
SumOf(keys, field) ==
    IF keys = {} THEN 0
    ELSE LET k == CHOOSE x \in keys : TRUE
         IN  (IF field = "count" THEN pokedex[k].count ELSE pokedex[k].shiny_count)
                + SumOf(keys \ {k}, field)

\* FROM pokedex pdx JOIN users u ON pdx.user_id = u.id GROUP BY u.username;
\* the engine stores every participant with username = id
Groups == {u \in users : \E k \in DOMAIN pokedex : k[1] = u}

GroupRow(u) ==
    LET keys == {k \in DOMAIN pokedex : k[1] = u}
    IN  [user_id |-> u, total_caught |-> SumOf(keys, "count"),
         shiny_total |-> SumOf(keys, "shiny_count")]

\* mutant: ORDER BY total_caught, without DESC
OrderBy_Ascending(seq) ==
    \A i \in 1..(Len(seq) - 1) : seq[i].total_caught <= seq[i + 1].total_caught

\* ORDER BY total_caught DESC; rows with equal totals come in any order
OrderBy(seq) ==
    \A i \in 1..(Len(seq) - 1) : seq[i].total_caught >= seq[i + 1].total_caught

\* LIMIT $1
Limit(seq, limit) == SubSeq(seq, 1, Min(limit, Len(seq)))

\* the row sequences the query can return
LeaderboardRows(limit) ==
    LET rows == {GroupRow(u) : u \in Groups}
        all == {seq \in [1..Cardinality(rows) -> rows] :
                    /\ \A i, j \in DOMAIN seq : i # j => seq[i] # seq[j]
                    /\ OrderBy(seq)}
    IN  {Limit(seq, limit) : seq \in all}

\* leaderboard(limit): one query, return res.rows
Leaderboard(limit) ==
    /\ \E rows \in LeaderboardRows(limit) :
            board' = [limit |-> limit, rows |-> rows, asked |-> TRUE]
    /\ UNCHANGED <<engine, sender, conn, auto, tokens, mgr>>

----------------------------------------------------------------------------
(* createChatSender: the outbound delivery queue *)

(* Messages are numbered 1, 2, ... in the order send() accepts them.  Delays
   are in milliseconds; a timer is taken to fire exactly at its delay. *)

PumpIds == {"p1", "p2"}     \* invocations of pump() that got past its entry check

\* the retry-after header of a 429 response
NoRetry == [kind |-> "none", value |-> 0]
RetryHeaders == {[kind |-> "absent", value |-> 0],      \* no header: ?? 2
                 [kind |-> "seconds", value |-> 0],
                 [kind |-> "seconds", value |-> -5],
                 [kind |-> "seconds", value |-> 30],
                 [kind |-> "date", value |-> 0]}         \* an HTTP date: Number() is NaN

\* what one call of sendNow can meet
Statuses == {"ok", "rate", "unauth", "error"}

\* refreshes counts the calls of refreshAccessToken the 401 branch made for
\* the message and at401 is the stored expiry the last 401 response met (history)
InitPump == [pc |-> "idle", msg |-> 0, attempts |-> 0, hist |-> <<>>,
             retry |-> NoRetry, waited |-> 0, refreshes |-> 0, at401 |-> "none"]

\* expiry is the stored kick:access_expires_at against the clock: "valid", or
\* "due" once it is within REFRESH_BEFORE_MS.  posted and gap are history: a
\* POST was sent, and the timer waits (ms, counted up to 350) that have
\* elapsed since the last one was sent.
InitSender == [q |-> <<>>, sending |-> FALSE, accepted |-> 0,
               pumps |-> [p \in PumpIds |-> InitPump],
               fate |-> <<>>, tries |-> <<>>,
               expiry |-> "valid", posted |-> FALSE, gap |-> 0]

\* mutant: the spacing timer is one millisecond short
SpacingMs_Short == 350 - 1

\* await new Promise((r) => setTimeout(r, 350))
SpacingMs == 350

\* a timer of ms milliseconds has run out in sender state sd
Elapsed(sd, ms) == [sd EXCEPT !.gap = Min(350, @ + ms)]

\* mutant: a 401 response is thrown like any other failure status
AfterResponse_NoRefresh(status) ==
    CASE status = "ok" -> "spacing"
      [] status = "rate" -> "retryWait"
      [] OTHER -> "backoff"

\* where sendNow goes on a response: return true, the 429 branch, the 401
\* branch, or throw kick_send_failed
AfterResponse(status) ==
    CASE status = "ok" -> "spacing"
      [] status = "rate" -> "retryWait"
      [] status = "unauth" -> "refresh"
      [] OTHER -> "backoff"

\* mutant: the header's seconds taken as milliseconds
WaitMs_Millis(h) ==
    IF h.kind = "absent" THEN Min(10000, Max(1000, 2))
    ELSE IF h.kind = "date" THEN 1
    ELSE Min(10000, Max(1000, h.value))

\* waitMs = Math.min(10000, Math.max(1000, retryAfter * 1000)); a NaN delay makes
\* setTimeout fire after 1 ms
WaitMs(h) ==
    IF h.kind = "absent" THEN Min(10000, Max(1000, 2 * 1000))
    ELSE IF h.kind = "date" THEN 1
    ELSE Min(10000, Max(1000, h.value * 1000))

\* 500 * 2 ** attempts
RECURSIVE Pow2(_)
Pow2(n) == IF n = 0 THEN 1 ELSE 2 * Pow2(n - 1)

\* delay = Math.min(8000, 500 * 2 ** attempts)
BackoffDelay(attempts) == Min(8000, 500 * Pow2(attempts))

\* mutant: pump() without its entry check
PumpBusy_Never == FALSE

\* if (sending) return
PumpBusy == sender.sending

\* mutant: the retry loop gives up one attempt late
MaxAttempts_Four == 3 + 1

\* while (attempts < 3)
MaxAttempts == 3

\* mutant: a message is taken from the end of the queue
Shift_Last(q) == [msg |-> q[Len(q)], rest |-> SubSeq(q, 1, Len(q) - 1)]

\* q.shift()
Shift(q) == [msg |-> Head(q), rest |-> Tail(q)]

\* the head of pump's outer loop for drain loop p in sender state sd: take the
\* next message and enter its first sendNow, or leave through finally
TakeNext(sd, p) ==
    IF Len(sd.q) > 0
    THEN LET sh == Shift(sd.q)
         IN  [sd EXCEPT !.q = sh.rest,
                        !.pumps[p] = [InitPump EXCEPT !.pc = "prep", !.msg = sh.msg,
                                                      !.attempts = 1],
                        !.fate[sh.msg] = "active",
                        !.tries[sh.msg] = @ + 1]
    ELSE [sd EXCEPT !.sending = FALSE, !.pumps[p] = InitPump]

\* the drain loop a new pump() becomes
FreePump == IF sender.pumps["p1"].pc = "idle" THEN "p1" ELSE "p2"

\* send(text) with a non-empty text: push, then pump()
Sent ==
    LET m == sender.accepted + 1
        pushed == [sender EXCEPT !.q = Append(@, m), !.accepted = m,
                                 !.fate = Append(@, "queued"), !.tries = Append(@, 0)]
    IN  IF PumpBusy THEN pushed
        ELSE TakeNext([pushed EXCEPT !.sending = TRUE], FreePump)

\* the sender can take one more message
Room == sender.accepted < MaxMsgs /\ (PumpBusy \/ sender.pumps[FreePump].pc = "idle")

Send ==
    /\ Room
    /\ sender' = Sent
    /\ UNCHANGED <<engine, board, tokens, mgr, conn, auto>>

\* sendNow up to the POST: getValidAccessToken and getChatroomIdFromDB return
\* and the POST is sent, or one of them throws (no token, no chatroom id).
\* getValidAccessToken refreshes a token whose expiry is due; renewed tells
\* whether that refresh succeeded (on failure the existing token is returned).
Prepare(p, ready, renewed) ==
    /\ sender.pumps[p].pc = "prep"
    /\ sender' = IF ready
                  THEN [sender EXCEPT !.pumps[p].pc = "post",
                                      !.pumps[p].retry = NoRetry, !.pumps[p].waited = 0,
                                      !.expiry = IF @ = "due" /\ renewed THEN "valid" ELSE @,
                                      !.posted = TRUE, !.gap = 0]
                  ELSE [sender EXCEPT !.pumps[p].pc = "backoff",
                                      !.pumps[p].hist = Append(@, "noauth"),
                                      !.pumps[p].retry = NoRetry, !.pumps[p].waited = 0]
    /\ UNCHANGED <<engine, board, tokens, mgr, conn, auto>>

\* the clock comes within REFRESH_BEFORE_MS of the stored expiry
TokenAges ==
    /\ sender.expiry = "valid"
    /\ sender' = [sender EXCEPT !.expiry = "due"]
    /\ UNCHANGED <<engine, board, tokens, mgr, conn, auto>>

\* axios.post returns with a status (validateStatus accepts all), or throws
Respond(p, status, header) ==
    /\ sender.pumps[p].pc = "post"
    /\ LET msg == sender.pumps[p].msg
       IN  sender' = [sender EXCEPT !.pumps[p].pc = AfterResponse(status),
                                    !.pumps[p].hist = Append(@, status),
                                    !.pumps[p].retry = IF status = "rate" THEN header ELSE @,
                                    !.pumps[p].at401 = IF status = "unauth" THEN sender.expiry ELSE @,
                                    !.fate[msg] = IF status = "ok" THEN "delivered" ELSE @]
    /\ UNCHANGED <<engine, board, tokens, mgr, conn, auto>>

\* 429: await setTimeout(waitMs), then throw rate_limited
RetryWait(p) ==
    /\ sender.pumps[p].pc = "retryWait"
    /\ sender' = Elapsed([sender EXCEPT !.pumps[p].pc = "backoff",
                                         !.pumps[p].waited = @ + WaitMs(sender.pumps[p].retry)],
                          WaitMs(sender.pumps[p].retry))
    /\ UNCHANGED <<engine, board, tokens, mgr, conn, auto>>

\* 401: refreshAccessToken is called, whatever the stored expiry; it stores a
\* new token and expiry and unauthorized_retry is thrown (renewed), or it throws
Refresh(p, renewed) ==
    /\ sender.pumps[p].pc = "refresh"
    /\ sender' = [sender EXCEPT !.pumps[p].pc = "backoff",
                                 !.pumps[p].refreshes = @ + 1,
                                 !.expiry = IF renewed THEN "valid" ELSE @]
    /\ UNCHANGED <<engine, board, tokens, mgr, conn, auto>>

\* catch: await setTimeout(delay); then the message is dropped or sendNow is
\* entered again
Backoff(p) ==
    /\ sender.pumps[p].pc = "backoff"
    /\ LET k == sender.pumps[p]
           delay == BackoffDelay(k.attempts)
       IN  sender' = Elapsed(
            IF k.attempts >= MaxAttempts
            THEN [sender EXCEPT !.pumps[p].pc = "spacing",
                                !.pumps[p].waited = @ + delay,
                                !.fate[k.msg] = "dropped"]
            ELSE [sender EXCEPT !.pumps[p].pc = "prep",
                                !.pumps[p].attempts = @ + 1,
                                !.pumps[p].waited = @ + delay,
                                !.tries[k.msg] = @ + 1], delay)
    /\ UNCHANGED <<engine, board, tokens, mgr, conn, auto>>

\* await setTimeout(350), then the head of the outer loop
Spacing(p) ==
    /\ sender.pumps[p].pc = "spacing"
    /\ sender' = TakeNext(Elapsed(sender, SpacingMs), p)
    /\ UNCHANGED <<engine, board, tokens, mgr, conn, auto>>

SenderSteps ==
    \/ Send
    \/ TokenAges
    \/ \E p \in PumpIds, ready, renewed \in BOOLEAN : Prepare(p, ready, renewed)
    \/ \E p \in PumpIds, status \in Statuses, header \in RetryHeaders :
            Respond(p, status, IF status = "rate" THEN header ELSE NoRetry)
    \/ \E p \in PumpIds : RetryWait(p)
    \/ \E p \in PumpIds, renewed \in BOOLEAN : Refresh(p, renewed)
    \/ \E p \in PumpIds : Backoff(p)
    \/ \E p \in PumpIds : Spacing(p)

----------------------------------------------------------------------------
(* kickConnector: the chat ingestion connector *)

(* The connector server.js starts: startKickConnector({chatroomId, channelId,
   onMessage}), with reconnect on close.  A socket is "connecting", "open",
   "closing" (close() was called on it), "closed" (its close event was
   delivered) or "dead" (terminated with its listeners removed).  handling
   holds, for each attemptCatch the handler started, where the handler is;
   crashed tells that a rejection nobody handles has ended the process.  room
   is the chatroomId of the cached args and of each socket's subscription (a
   socket that is closed or dead has none).
   drops, delays, frames, invoked, after, halted, stale (the pending
   reconnect timers that were set before the last stop) and revived (such a
   timer has fired since the last start) are history, and so are
   preceding, the reconnect attempts counted when a socket last opened, and
   last and handed, the last frame received and the handler call it led to. *)

Jitters == {0, 499}     \* Math.floor(Math.random() * 500)

Rooms == {"r1", "r2"}   \* chatroomId values startKickConnector is given
NoRoom == "-"

(* An inbound frame, as far as the message listener looks at it: whether
   JSON.parse accepts it; its event ("chat" is App\Events\ChatMessageEvent,
   "other" any other event name, "none" a missing or empty one); its data
   (missing, an object, a string holding JSON, any other string); and, for
   data that has fields, its text and its sender's name, each missing, the
   empty string or a non-empty string. *)
Frames == [parses : BOOLEAN, event : {"none", "chat", "other"},
           data : {"none", "object", "json", "string"},
           content : {"absent", "empty", "text"},
           sender : {"absent", "empty", "name"}]

NoFrame == [parses |-> FALSE, event |-> "none", data |-> "none",
            content |-> "absent", sender |-> "absent"]

\* the call of onMessage(username, content, payload) a frame led to, if any
NoCall == [called |-> FALSE, username |-> "", content |-> ""]

InitConn == [ws |-> 0, socks |-> <<>>, stopped |-> FALSE, args |-> FALSE, room |-> NoRoom,
             attempts |-> 0, timers |-> 0, preceding |-> 0,
             last |-> NoFrame, handed |-> NoCall,
             drops |-> 0, delays |-> <<>>, frames |-> 0, invoked |-> 0, halted |-> FALSE,
             handling |-> [c \in CallIds |-> "none"], after |-> 0, crashed |-> FALSE,
             stale |-> 0, revived |-> FALSE]

\* mutant: the delay without its cap
ReconnectDelay_NoCap(attempts, jitter) == 1000 * Pow2(Min(attempts, 6)) + jitter

\* exp = Math.min(reconnectAttempts, 6); base = 1000 * Math.pow(2, exp);
\* delay = Math.min(30000, base + jitter)
ReconnectDelay(attempts, jitter) == Min(30000, 1000 * Pow2(Min(attempts, 6)) + jitter)

\* cleanup(): removeAllListeners, terminate, ws = null
\* mutant: cleanup() that only forgets the socket
Cleanup_Forgets(cn) ==
    IF cn.ws = 0 THEN cn ELSE [cn EXCEPT !.ws = 0]

Cleanup(cn) ==
    IF cn.ws = 0 THEN cn
    ELSE [cn EXCEPT !.socks[cn.ws] = [state |-> "dead", listeners |-> FALSE, room |-> NoRoom],
                    !.ws = 0]

\* connect(a): cleanup(); args = a; ws = new WebSocket; the listeners are set
Connect(cn, room) ==
    LET c1 == Cleanup(cn)
    IN  [c1 EXCEPT !.args = TRUE, !.room = room,
                   !.socks = Append(@, [state |-> "connecting", listeners |-> TRUE,
                                        room |-> room]),
                   !.ws = Len(c1.socks) + 1]

\* mutant: a close is only logged, as in the connector without reconnect
ScheduleReconnect_Never(cn, jitter) == cn

\* reconnect() / scheduleReconnect()
ScheduleReconnect(cn, jitter) ==
    IF cn.stopped \/ ~cn.args THEN cn
    ELSE [cn EXCEPT !.attempts = @ + 1,
                    !.timers = @ + 1,
                    !.delays = Append(@, ReconnectDelay(cn.attempts + 1, jitter))]

\* startKickConnector(options) with a valid chatroomId
StartKickConnector(room) ==
    /\ ~conn.crashed
    /\ Len(conn.socks) < MaxConns
    /\ conn' = Connect([conn EXCEPT !.stopped = FALSE, !.halted = FALSE], room)
    /\ UNCHANGED <<engine, board, tokens, mgr, sender, auto>>

\* mutant: the open listener leaves the attempt counter as it is
OnOpen_KeepsAttempts(cn, i) ==
    [cn EXCEPT !.socks[i].state = "open", !.preceding = cn.attempts,
               !.drops = 0, !.delays = <<>>]

\* attempts = 0; the subscriptions are sent
OnOpen(cn, i) ==
    [cn EXCEPT !.socks[i].state = "open", !.attempts = 0, !.preceding = cn.attempts,
               !.drops = 0, !.delays = <<>>]

\* ws.on('open')
SockOpen(i) ==
    /\ conn.socks[i].state = "connecting" /\ conn.socks[i].listeners
    /\ conn' = OnOpen(conn, i)
    /\ UNCHANGED <<engine, board, tokens, mgr, sender, auto>>

\* ws.on('error'): ws.close() on the current socket
SockError(i) ==
    /\ conn.socks[i].state \in {"connecting", "open"} /\ conn.socks[i].listeners
    /\ conn.ws # 0 /\ conn.socks[conn.ws].state \in {"connecting", "open"}
    /\ conn' = [conn EXCEPT !.socks[conn.ws].state = "closing"]
    /\ UNCHANGED <<engine, board, tokens, mgr, sender, auto>>

\* ws.on('close'): reconnect()
SockClose(i, jitter) ==
    /\ conn.socks[i].state \in {"connecting", "open", "closing"} /\ conn.socks[i].listeners
    /\ conn' = ScheduleReconnect([conn EXCEPT !.socks[i].state = "closed",
                                               !.socks[i].room = NoRoom,
                                               !.drops = @ + 1], jitter)
    /\ UNCHANGED <<engine, board, tokens, mgr, sender, auto>>

\* the reconnect timer fires: if (!stopped) connect(args)
ReconnectTimer ==
    /\ conn.timers > 0
    /\ ~conn.crashed
    /\ ~conn.stopped => Len(conn.socks) < MaxConns
    /\ \E old \in BOOLEAN :
            /\ IF old THEN conn.stale > 0 ELSE conn.timers > conn.stale
            /\ LET fired == [conn EXCEPT !.timers = @ - 1,
                                         !.stale = IF old THEN @ - 1 ELSE @]
               IN  conn' = IF conn.stopped THEN fired
                           ELSE Connect([fired EXCEPT !.revived = @ \/ old], conn.room)
    /\ UNCHANGED <<engine, board, tokens, mgr, sender, auto>>

\* ws.on('message') with a frame that does not parse, or with a chat message
\* that is no command: the handler is invoked for the latter and replies nothing
SockMessage(i, kind) ==
    /\ conn.socks[i].state = "open" /\ conn.socks[i].listeners
    /\ conn.frames < MaxFrames
    /\ conn' = [conn EXCEPT !.frames = @ + 1,
                             !.invoked = IF kind = "chat" THEN @ + 1 ELSE @]
    /\ UNCHANGED <<engine, board, tokens, mgr, sender, auto>>

\* stopKickConnector(): stopped = true; args = null; cleanup()
StopKickConnector ==
    /\ ~conn.halted
    /\ conn' = Cleanup([conn EXCEPT !.stopped = TRUE, !.args = FALSE, !.room = NoRoom,
                                     !.halted = TRUE, !.stale = conn.timers,
                                     !.revived = FALSE])
    /\ UNCHANGED <<engine, board, tokens, mgr, sender, auto>>

\* mutant: handleChatMessage without its try / catch
HandlerCatches_Never == FALSE

\* handleChatMessage: try { ... } catch (err) { console.error(...) }
HandlerCatches == TRUE

\* ws.on('message') with the chat message "!catch" of user u: onMessage awaits
\* handleChatMessage, which enters engine.attemptCatch(userId, { ball: 'pokeball' })
SockMessageCatch(i, c, u) ==
    /\ conn.socks[i].state = "open" /\ conn.socks[i].listeners
    /\ ~conn.crashed
    /\ conn.frames < MaxFrames
    /\ conn' = [conn EXCEPT !.frames = @ + 1, !.invoked = @ + 1,
                             !.handling[c] = "running",
                             !.after = IF \E d \in CallIds : conn.handling[d] = "caught"
                                       THEN @ + 1 ELSE @]
    /\ CooldownCheck(c, u)
    /\ UNCHANGED <<clock, pokemon, spawns, users, pokedex, cooldowns, spawners, clears,
                   board, tokens, mgr, sender, auto>>

\* attemptCatch has returned or thrown: handleChatMessage sends its reply, or
\* its catch logs the error; an error that escaped would reject onMessage's
\* promise, which nobody handles
HandlerEnd(c) ==
    /\ conn.handling[c] = "running"
    /\ calls[c].pc = "done"
    /\ IF calls[c].res.reason = "threw"
       THEN /\ conn' = IF HandlerCatches THEN [conn EXCEPT !.handling[c] = "caught"]
                        ELSE [conn EXCEPT !.handling[c] = "escaped", !.crashed = TRUE]
            /\ sender' = sender
       ELSE /\ Room
            /\ sender' = Sent
            /\ conn' = [conn EXCEPT !.handling[c] = "replied"]
    /\ UNCHANGED <<engine, board, tokens, mgr, auto>>

ConnSteps ==
    \/ \E room \in Rooms : StartKickConnector(room)
    \/ \E i \in 1..Len(conn.socks) : SockOpen(i)
    \/ \E i \in 1..Len(conn.socks) : SockError(i)
    \/ \E i \in 1..Len(conn.socks), jitter \in Jitters : SockClose(i, jitter)
    \/ ReconnectTimer
    \/ \E i \in 1..Len(conn.socks), kind \in {"junk", "chat"} : SockMessage(i, kind)
    \/ StopKickConnector

----------------------------------------------------------------------------
(* The earlier draft of the connector: connect / scheduleReconnect /
   startKickConnector / stopKickConnector over the same module variables.
   stopped is never reset, the old socket is not cleaned up on connect, and
   stopKickConnector closes the socket gracefully. *)

\* delay = Math.min(30000, 1000 * 2 ** reconnectAttempts)
ReconnectDelayV1(attempts) == Min(30000, 1000 * Pow2(attempts))

\* connect(args): ws = new WebSocket; the listeners are set
ConnectV1(cn) ==
    [cn EXCEPT !.args = TRUE,
               !.socks = Append(@, [state |-> "connecting", listeners |-> TRUE,
                                    room |-> cn.room]),
               !.ws = Len(cn.socks) + 1]

\* scheduleReconnect(args): setTimeout(() => connect(args), delay)
ScheduleReconnectV1(cn) ==
    IF cn.stopped THEN cn
    ELSE [cn EXCEPT !.attempts = @ + 1,
                    !.timers = @ + 1,
                    !.delays = Append(@, ReconnectDelayV1(cn.attempts + 1))]

\* startKickConnector: fetchChannel, then connect; called once, as main() does
StartKickConnectorV1 ==
    /\ conn.ws = 0
    /\ Len(conn.socks) < MaxConns
    /\ conn' = ConnectV1([conn EXCEPT !.halted = FALSE])
    /\ UNCHANGED <<engine, board, tokens, mgr, sender, auto>>

\* ws.on('open')
SockOpenV1(i) ==
    /\ conn.socks[i].state = "connecting"
    /\ conn' = [conn EXCEPT !.socks[i].state = "open", !.attempts = 0,
                             !.drops = 0, !.delays = <<>>]
    /\ UNCHANGED <<engine, board, tokens, mgr, sender, auto>>

\* ws.on('error', () => ws.close())
SockErrorV1(i) ==
    /\ conn.socks[i].state \in {"connecting", "open"}
    /\ conn.socks[conn.ws].state \in {"connecting", "open"}
    /\ conn' = [conn EXCEPT !.socks[conn.ws].state = "closing"]
    /\ UNCHANGED <<engine, board, tokens, mgr, sender, auto>>

\* ws.on('close', () => scheduleReconnect(...))
SockCloseV1(i) ==
    /\ conn.socks[i].state \in {"connecting", "open", "closing"}
    /\ conn' = ScheduleReconnectV1([conn EXCEPT !.socks[i].state = "closed",
                                                 !.drops = @ + 1])
    /\ UNCHANGED <<engine, board, tokens, mgr, sender, auto>>

\* the reconnect timer fires: connect(args)
ReconnectTimerV1 ==
    /\ conn.timers > 0
    /\ Len(conn.socks) < MaxConns
    /\ conn' = ConnectV1([conn EXCEPT !.timers = @ - 1])
    /\ UNCHANGED <<engine, board, tokens, mgr, sender, auto>>

\* ws.on('message'): try { parse; if (content && username) onMessage(...) } catch {}
\* (no frame is taken to be delivered once close() was called on the socket)
SockMessageV1(i, kind) ==
    /\ conn.socks[i].state = "open"
    /\ conn.frames < MaxFrames
    /\ conn' = [conn EXCEPT !.frames = @ + 1,
                             !.invoked = IF kind = "chat" THEN @ + 1 ELSE @]
    /\ UNCHANGED <<engine, board, tokens, mgr, sender, auto>>

\* stopKickConnector(): stopped = true; if (ws) ws.close()
StopKickConnectorV1 ==
    /\ ~conn.halted
    /\ LET c1 == [conn EXCEPT !.stopped = TRUE, !.halted = TRUE]
       IN  conn' = IF conn.ws # 0 /\ conn.socks[conn.ws].state \in {"connecting", "open"}
                   THEN [c1 EXCEPT !.socks[conn.ws].state = "closing"]
                   ELSE c1
    /\ UNCHANGED <<engine, board, tokens, mgr, sender, auto>>

ConnStepsV1 ==
    \/ StartKickConnectorV1
    \/ \E i \in 1..Len(conn.socks) : SockOpenV1(i)
    \/ \E i \in 1..Len(conn.socks) : SockErrorV1(i)
    \/ \E i \in 1..Len(conn.socks) : SockCloseV1(i)
    \/ ReconnectTimerV1
    \/ \E i \in 1..Len(conn.socks), kind \in {"junk", "chat"} : SockMessageV1(i, kind)
    \/ StopKickConnectorV1

----------------------------------------------------------------------------
(* src/kickConnector.js as committed: startKickConnector({channel, onMessage})
   opens one connection and has no reconnect. *)

\* ws.on('message'): try { JSON.parse; if (!event || !data) return; payload;
\* type; if (type ... 'chatmessage') { content ?? ''; username ?? 'unknown';
\* onMessage(username, content, payload) } } catch {}
MessageListenerV0(f) ==
    IF ~f.parses THEN NoCall
    ELSE IF f.event = "none" \/ f.data = "none" THEN NoCall
    ELSE IF f.event # "chat" THEN NoCall
    ELSE LET fields == f.data \in {"object", "json"}
         IN  [called |-> TRUE,
              username |-> IF fields /\ f.sender = "name" THEN "name"
                           ELSE IF fields /\ f.sender = "empty" THEN ""
                           ELSE "unknown",
              content |-> IF fields /\ f.content = "text" THEN "text" ELSE ""]

\* startKickConnector with a channel whose chatroom id is found: new WebSocket
StartKickConnectorV0 ==
    /\ Len(conn.socks) = 0
    /\ conn' = [conn EXCEPT !.socks = <<[state |-> "connecting", listeners |-> TRUE,
                                          room |-> "r1"]>>,
                             !.ws = 1]
    /\ UNCHANGED <<engine, board, tokens, mgr, sender, auto>>

\* ws.on('open'): wsConnected = true; subscribe
SockOpenV0(i) ==
    /\ conn.socks[i].state = "connecting"
    /\ conn' = [conn EXCEPT !.socks[i].state = "open"]
    /\ UNCHANGED <<engine, board, tokens, mgr, sender, auto>>

\* ws.on('message')
SockMessageV0(i, f) ==
    /\ conn.socks[i].state = "open"
    /\ conn.frames < MaxFrames
    /\ LET call == MessageListenerV0(f)
       IN  conn' = [conn EXCEPT !.frames = @ + 1, !.last = f, !.handed = call,
                                !.invoked = IF call.called THEN @ + 1 ELSE @]
    /\ UNCHANGED <<engine, board, tokens, mgr, sender, auto>>

\* ws.on('close'): wsConnected = false; wsInstance = null
SockCloseV0(i) ==
    /\ conn.socks[i].state \in {"connecting", "open"}
    /\ conn' = [conn EXCEPT !.socks[i].state = "closed", !.ws = 0]
    /\ UNCHANGED <<engine, board, tokens, mgr, sender, auto>>

ConnStepsV0 ==
    \/ StartKickConnectorV0
    \/ \E i \in 1..Len(conn.socks) : SockOpenV0(i)
    \/ \E i \in 1..Len(conn.socks), f \in Frames : SockMessageV0(i, f)
    \/ \E i \in 1..Len(conn.socks) : SockCloseV0(i)

----------------------------------------------------------------------------
(* GameEngine.startAutoSpawner / stopAutoSpawner *)

(* handle tells whether _spawnerTimer refers to a timer that is pending;
   orphans counts the pending timers it no longer refers to; inflight tells
   whether a timer callback is between its start and its finally.  History:
   halted, stopAutoSpawner was called and startAutoSpawner not since;
   broadcasts, the calls of broadcastFn; seen, the ways cycles have ended. *)

InitAuto == [running |-> FALSE, handle |-> FALSE, orphans |-> 0, inflight |-> FALSE,
             halted |-> FALSE, broadcasts |-> 0, seen |-> {}]

\* the timers that are pending
Pending(a) == a.orphans + (IF a.handle THEN 1 ELSE 0)

\* scheduleNext(): this._spawnerTimer = setTimeout(...)
ScheduleNext(a) ==
    [a EXCEPT !.handle = TRUE, !.orphans = IF a.handle THEN @ + 1 ELSE @]

\* mutant: the callback ends without its finally block
Reschedule_Never(a) == a

\* finally { if (this.running) scheduleNext(); }
Reschedule(a) == IF a.running THEN ScheduleNext(a) ELSE a

\* startAutoSpawner(broadcastFn)
StartAutoSpawner ==
    /\ ~auto.running
    /\ Pending(auto) + (IF auto.inflight THEN 1 ELSE 0) < MaxChains
    /\ auto' = ScheduleNext([auto EXCEPT !.running = TRUE, !.halted = FALSE])
    /\ UNCHANGED <<engine, board, tokens, mgr, sender, conn>>

\* a timer fires and its callback enters spawnOnce()
AutoTimer(which) ==
    /\ ~auto.inflight
    /\ IF which = "handle" THEN auto.handle ELSE auto.orphans > 0
    /\ auto' = IF which = "handle"
                THEN [auto EXCEPT !.handle = FALSE, !.inflight = TRUE]
                ELSE [auto EXCEPT !.orphans = @ - 1, !.inflight = TRUE]
    /\ EnterSpawnOnce("scheduler", 0)
    /\ UNCHANGED <<clock, pokemon, spawns, users, pokedex, cooldowns, calls, clears, lastPass,
                   board, tokens, mgr, sender, conn>>

\* how the callback's try block ended
Outcome(sp, raised) ==
    IF sp.threw THEN "error"
    ELSE IF sp.res = 0 THEN "noop"
    ELSE IF raised THEN "raise" ELSE "spawn"

\* spawnOnce has returned or thrown: broadcastFn(spawn) if it returned a spawn
\* (the callback sends the announcement, or raises), catch, then finally
AutoFinally(raised) ==
    /\ auto.inflight
    /\ spawners["scheduler"].pc = "done"
    /\ LET out == Outcome(spawners["scheduler"], raised)
       IN  /\ IF out = "spawn" THEN Room /\ sender' = Sent ELSE sender' = sender
           /\ auto' = Reschedule([auto EXCEPT !.inflight = FALSE,
                                              !.broadcasts = IF out \in {"spawn", "raise"}
                                                             THEN @ + 1 ELSE @,
                                              !.seen = @ \cup {out}])
    /\ spawners' = [spawners EXCEPT !["scheduler"] = InitSpawner]
    /\ UNCHANGED <<clock, pokemon, spawns, users, pokedex, cooldowns, calls, clears, lastPass,
                   board, tokens, mgr, conn>>

\* stopAutoSpawner()
StopAutoSpawner ==
    /\ auto.running
    /\ auto' = [auto EXCEPT !.running = FALSE, !.handle = FALSE, !.halted = TRUE]
    /\ UNCHANGED <<engine, board, tokens, mgr, sender, conn>>

----------------------------------------------------------------------------
(* The clock *)

Tick ==
    /\ clock < cooldownSeconds + MaxTicks
    /\ clock' = clock + 1
    /\ UNCHANGED <<pokemon, spawns, users, pokedex, cooldowns, calls, spawners, clears, lastPass, ext>>

----------------------------------------------------------------------------
(* Specifications.  Date.now() is far above cooldownSeconds, so that a first
   attempt always passes the check against the default 0: the clock starts
   there.  The store outlives the process: it may hold participant records
   from before the start. *)

\* attemptCatch invocations c of C, with the draws and options they can get
CatchProgress(C, balls, rolls) ==
    \/ \E c \in C : Begin(c)
    \/ \E c \in C : Select(c)
    \/ \E c \in C : ReturnNoSpawn(c)
    \/ \E c \in C, ball \in balls, roll \in rolls, isShiny \in BOOLEAN :
            Roll(c, ball, roll, isShiny)
    \/ \E c \in C : CommitCapture(c)
    \/ \E c \in C : FailCapture(c)
    \/ \E c \in C : ReturnOk(c)
    \/ \E c \in C : ReturnFailed(c)
    \/ \E c \in C : Throw(c)

CatchSteps(C, balls, rolls) ==
    \/ \E c \in C, u \in Participants : Start(c, u)
    \/ CatchProgress(C, balls, rolls)

ClearSteps ==
    \/ \E k \in ClearIds : ClearStart(k)
    \/ \E k \in ClearIds : ClearUpdate(k)

----------------------------------------------------------------------------
(* tokenManager: the OAuth tokens kept in table tokens *)

(* Time is counted in minutes.  A token is named by the number of the token
   response that issued it: 1 is the one the OAuth callback stored, 0 stands
   for a missing row.  The expiry row holds the time (at) and, as history, the
   response it was computed from (of).  An invocation is the periodic tick's
   or the chat sender's: its position, what it has read (token, exp), whether
   it runs refreshAccessToken inside getValidAccessToken's try (mode "try")
   or with the error propagating (mode "must"), the response it got, and
   its outcome.  Each caller is followed through one call.  wrote, retAt and
   issued are history. *)

MaxNow == 1         \* minutes the wall clock advances

\* mutant: no margin before the expiry
REFRESH_BEFORE_MS_Zero == 1 - 1

\* REFRESH_BEFORE_MS = 60 * 1000
REFRESH_BEFORE_MS == 1

\* data.expires_in, in minutes; 0 stands for a response without the field
ExpiresIn == {0, 1}

\* new Date(Date.now() + expires_in * 1000), or one hour if expires_in is missing
ExpiresAt(now, expires_in) == now + (IF expires_in = 0 THEN 60 ELSE expires_in)

NoExpiry == [at |-> 0, of |-> 0]

InitTokens == [access |-> 1, refresh |-> 1, expiry |-> [at |-> 3, of |-> 1],
               chatroom |-> "r1"]

Callers == {"periodic", "demand"}

NoResponse == [id |-> 0, rot |-> FALSE, ttl |-> 0]

InitInvocation == [pc |-> "idle", direct |-> FALSE, token |-> 0, exp |-> NoExpiry,
                   mode |-> "none", resp |-> NoResponse, step |-> 0, wrote |-> 0,
                   out |-> "none", ret |-> 0, retAt |-> 0]

\* the sends of the chat sender whose chat-room lookup is followed
SendIds == {"s1", "s2"}

\* a sendNow: where it is, the row value its SELECT returned (v), the id its
\* POST is addressed to; after and latest are history: it began after the
\* set-chatroom request had been answered, and the id stored at that time
InitLookup == [pc |-> "idle", v |-> NoRoom, to |-> NoRoom, after |-> FALSE, latest |-> NoRoom]

InitMgr == [now |-> 0, creds |-> TRUE, issued |-> 1,
            inv |-> [c \in Callers |-> InitInvocation],
            cache |-> NoRoom,
            look |-> [s \in SendIds |-> InitLookup],
            admin |-> [pc |-> "idle", channel |-> FALSE]]

\* mutant: the token is stored before the response is looked at
RefreshSteps_StoreFirst == <<"store_access", "check_token", "store_refresh", "store_expiry">>

\* what refreshAccessToken does with a response, one await after the other
RefreshSteps == <<"check_token", "store_access", "store_refresh", "store_expiry">>

\* refreshAccessToken throws: inside getValidAccessToken's try the stored
\* token is returned, otherwise the error reaches the caller
Thrown(iv, now) ==
    IF iv.mode = "try"
    THEN [iv EXCEPT !.pc = "done", !.out = "fallback", !.ret = iv.token, !.retAt = now]
    ELSE [iv EXCEPT !.pc = "done", !.out = "threw", !.retAt = now]

\* getValidAccessToken(pool, clientId, clientSecret) is called
GetValidAccessToken(c) ==
    /\ mgr.inv[c].pc = "idle"
    /\ mgr' = [mgr EXCEPT !.inv[c].pc = "readToken"]
    /\ UNCHANGED <<engine, board, sender, conn, auto, tokens>>

\* token = await getTokenValue(pool, ACCESS_KEY)
ReadToken(c) ==
    /\ mgr.inv[c].pc = "readToken"
    /\ mgr' = [mgr EXCEPT !.inv[c].pc = "readExpiry", !.inv[c].token = tokens.access]
    /\ UNCHANGED <<engine, board, sender, conn, auto, tokens>>

\* expiresAtStr = await getTokenValue(pool, ACCESS_EXPIRES_KEY), and the branch
ReadExpiry(c) ==
    /\ mgr.inv[c].pc = "readExpiry"
    /\ LET iv == [mgr.inv[c] EXCEPT !.exp = tokens.expiry]
       IN  mgr' = [mgr EXCEPT !.inv[c] =
                CASE iv.token = 0 \/ iv.exp = NoExpiry ->
                        [iv EXCEPT !.pc = "refresh", !.mode = "must"]
                  [] iv.token # 0 /\ iv.exp # NoExpiry
                        /\ iv.exp.at - mgr.now <= REFRESH_BEFORE_MS ->
                        [iv EXCEPT !.pc = "refresh", !.mode = "try"]
                  [] OTHER ->
                        [iv EXCEPT !.pc = "done", !.out = "stored", !.ret = iv.token,
                                   !.retAt = mgr.now]]
    /\ UNCHANGED <<engine, board, sender, conn, auto, tokens>>

\* sendNow on status 401: await tokenManager.refreshAccessToken(...)
RefreshAccessToken(c) ==
    /\ mgr.inv[c].pc = "idle"
    /\ mgr' = [mgr EXCEPT !.inv[c].pc = "refresh", !.inv[c].direct = TRUE,
                           !.inv[c].mode = "must"]
    /\ UNCHANGED <<engine, board, sender, conn, auto, tokens>>

\* refreshToken = await getTokenValue(pool, REFRESH_KEY); the two checks; the
\* request is sent
ReadRefreshToken(c) ==
    /\ mgr.inv[c].pc = "refresh"
    /\ mgr' = [mgr EXCEPT !.inv[c] =
                IF tokens.refresh = 0 \/ ~mgr.creds
                THEN Thrown(@, mgr.now)
                ELSE [@ EXCEPT !.pc = "post"]]
    /\ UNCHANGED <<engine, board, sender, conn, auto, tokens>>

\* axios.post('https://id.kick.com/oauth/token') rejects, or resolves with a
\* body that has no access_token, or with tokens
TokenEndpoint(c, status, rot, ttl) ==
    /\ mgr.inv[c].pc = "post"
    /\ status # "tokens" => ~rot /\ ttl = 0
    /\ mgr' = CASE status = "failed" ->
                    [mgr EXCEPT !.inv[c] = Thrown(@, mgr.now)]
                [] status = "empty" ->
                    [mgr EXCEPT !.inv[c].pc = "stores", !.inv[c].step = 1]
                [] status = "tokens" ->
                    [mgr EXCEPT !.inv[c].pc = "stores", !.inv[c].step = 1,
                                !.inv[c].resp = [id |-> mgr.issued + 1, rot |-> rot,
                                                 ttl |-> ttl],
                                !.issued = @ + 1]
    /\ UNCHANGED <<engine, board, sender, conn, auto, tokens>>

\* the next of: if (!data.access_token) throw; await setTokenValue(ACCESS_KEY);
\* if (data.refresh_token) await setTokenValue(REFRESH_KEY);
\* await setTokenValue(ACCESS_EXPIRES_KEY); return data.access_token
RefreshStep(c) ==
    /\ mgr.inv[c].pc = "stores"
    /\ LET iv == mgr.inv[c]
           op == RefreshSteps[iv.step]
           next == IF iv.step < Len(RefreshSteps)
                   THEN [iv EXCEPT !.step = @ + 1]
                   ELSE [iv EXCEPT !.pc = "done", !.out = "refreshed",
                                   !.ret = iv.resp.id, !.retAt = mgr.now]
       IN  CASE op = "check_token" ->
                    /\ mgr' = [mgr EXCEPT !.inv[c] =
                                IF iv.resp.id = 0 THEN Thrown(iv, mgr.now) ELSE next]
                    /\ tokens' = tokens
             [] op = "store_access" ->
                    /\ tokens' = [tokens EXCEPT !.access = iv.resp.id]
                    /\ mgr' = [mgr EXCEPT !.inv[c] = [next EXCEPT !.wrote = @ + 1]]
             [] op = "store_refresh" ->
                    /\ tokens' = IF iv.resp.rot THEN [tokens EXCEPT !.refresh = iv.resp.id]
                                 ELSE tokens
                    /\ mgr' = [mgr EXCEPT !.inv[c] =
                                IF iv.resp.rot THEN [next EXCEPT !.wrote = @ + 1] ELSE next]
             [] op = "store_expiry" ->
                    /\ tokens' = [tokens EXCEPT !.expiry =
                                    [at |-> ExpiresAt(mgr.now, iv.resp.ttl), of |-> iv.resp.id]]
                    /\ mgr' = [mgr EXCEPT !.inv[c] = [next EXCEPT !.wrote = @ + 1]]
    /\ UNCHANGED <<engine, board, sender, conn, auto>>

\* a minute passes
Minute ==
    /\ mgr.now < MaxNow
    /\ mgr' = [mgr EXCEPT !.now = @ + 1]
    /\ UNCHANGED <<engine, board, sender, conn, auto, tokens>>

(* createChatSender.getChatroomIdFromDB and POST /admin/set-chatroom *)

\* sendNow(text) has its token and calls getChatroomIdFromDB(): the cached id
\* is returned, or the SELECT is sent; the drain loop runs one sendNow at a time
SendNow(s) ==
    /\ mgr.look[s].pc = "idle"
    /\ \A t \in SendIds \ {s} : mgr.look[t].pc \in {"idle", "done"}
    /\ s = "s2" => mgr.look["s1"].pc = "done"
    /\ LET lk == [mgr.look[s] EXCEPT !.after = mgr.admin.pc = "done",
                                      !.latest = tokens.chatroom]
       IN  mgr' = [mgr EXCEPT !.look[s] =
                IF mgr.cache # NoRoom
                THEN [lk EXCEPT !.pc = "done", !.to = mgr.cache]
                ELSE [lk EXCEPT !.pc = "query"]]
    /\ UNCHANGED <<engine, board, sender, conn, auto, tokens>>

\* the store executes SELECT value FROM tokens WHERE key = 'kick:chatroom_id'
LookupQuery(s) ==
    /\ mgr.look[s].pc = "query"
    /\ mgr' = [mgr EXCEPT !.look[s].pc = "reply", !.look[s].v = tokens.chatroom]
    /\ UNCHANGED <<engine, board, sender, conn, auto, tokens>>

\* the result arrives: cachedChatroomId = v; the POST goes to chat/v/message
LookupReply(s) ==
    /\ mgr.look[s].pc = "reply"
    /\ mgr' = [mgr EXCEPT !.look[s].pc = "done", !.look[s].to = mgr.look[s].v,
                           !.cache = mgr.look[s].v]
    /\ UNCHANGED <<engine, board, sender, conn, auto, tokens>>

\* POST /admin/set-chatroom with a valid secret and chatroomId: the store
\* executes the upsert of kick:chatroom_id
SetChatroom(room, channel) ==
    /\ mgr.admin.pc = "idle"
    /\ tokens' = [tokens EXCEPT !.chatroom = room]
    /\ mgr' = [mgr EXCEPT !.admin = [pc |-> IF channel THEN "channel" ELSE "clear",
                                      channel |-> channel]]
    /\ UNCHANGED <<engine, board, sender, conn, auto>>

\* if (channelId ...) the upsert of kick:channel_id
SetChannel ==
    /\ mgr.admin.pc = "channel"
    /\ mgr' = [mgr EXCEPT !.admin.pc = "clear"]
    /\ UNCHANGED <<engine, board, sender, conn, auto, tokens>>

\* chatSender.clearChatroomIdCache(); res.json({ ok: true, ... })
ClearChatroomIdCache ==
    /\ mgr.admin.pc = "clear"
    /\ mgr' = [mgr EXCEPT !.admin.pc = "done", !.cache = NoRoom]
    /\ UNCHANGED <<engine, board, sender, conn, auto, tokens>>

RoomSteps ==
    \/ \E s \in SendIds : SendNow(s)
    \/ \E s \in SendIds : LookupQuery(s)
    \/ \E s \in SendIds : LookupReply(s)
    \/ \E room \in Rooms, channel \in BOOLEAN : SetChatroom(room, channel)
    \/ SetChannel
    \/ ClearChatroomIdCache

TokenSteps ==
    \/ \E c \in Callers : GetValidAccessToken(c)
    \/ \E c \in Callers : ReadToken(c)
    \/ \E c \in Callers : ReadExpiry(c)
    \/ RefreshAccessToken("demand")
    \/ \E c \in Callers : ReadRefreshToken(c)
    \/ \E c \in Callers, status \in {"failed", "empty", "tokens"}, rot \in BOOLEAN,
          ttl \in ExpiresIn : TokenEndpoint(c, status, rot, ttl)
    \/ \E c \in Callers : RefreshStep(c)
    \/ Minute

----------------------------------------------------------------------------
\* the engine, its store and the components around it at startup
InitParts(rarities, participants) ==
    /\ clock = cooldownSeconds
    /\ pokemon = Seed(rarities)
    /\ spawns = <<>>
    /\ users = participants
    /\ pokedex = [k \in {} |-> 0]
    /\ cooldowns = [u \in {} |-> 0]
    /\ calls = [c \in CallIds |-> InitCall]
    /\ spawners = [s \in SpawnerIds |-> InitSpawner]
    /\ clears = [k \in ClearIds |-> [pc |-> "idle", now |-> 0]]
    /\ lastPass = [u \in {} |-> 0]
    /\ board = InitBoard
    /\ sender = InitSender
    /\ conn = InitConn
    /\ auto = InitAuto

InitStore(rarities, participants) ==
    /\ InitParts(rarities, participants)
    /\ tokens = InitTokens
    /\ mgr = InitMgr

Rolls == {500, 900}
Balls == {"pokeball"}       \* handleChatMessage passes { ball: 'pokeball' }

(* Spec: two chat commands racing for one spawn that the administrator
   creates and may clear, while the clock advances.  alice has a participant
   record, bob has none. *)

Init == InitStore(<<"common", "common">>, {"alice"})

Next ==
    \/ Tick
    \/ CatchSteps({"c1", "c2"}, Balls, Rolls)
    \/ \E pokemonId \in 1..Len(pokemon) :
            spawners["admin"].pc = "idle" /\ SpawnStart("admin", pokemonId)
    \/ SpawnCheck("admin")
    \/ SpawnInsert("admin")
    \/ ClearSteps

Spec == Init /\ [][Next]_vars

(* SpecRace: three chat commands racing for one spawn, all inside one second
   of the clock; alice has a participant record, bob may or may not. *)

InitBurst ==
    \E registered \in {{"alice"}, Participants} :
        InitStore(<<"common", "common">>, registered)

NextRace ==
    \/ CatchSteps(CallIds, Balls, Rolls)
    \/ \E pokemonId \in 1..Len(pokemon) :
            spawners["admin"].pc = "idle" /\ SpawnStart("admin", pokemonId)
    \/ SpawnCheck("admin")
    \/ SpawnInsert("admin")
    \/ ClearSteps

SpecRace == InitBurst /\ [][NextRace]_vars

(* SpecBurst: two chat commands over a series of spawns, all inside one
   second of the clock; alice has a participant record, bob may or may not. *)

NextBurst ==
    \/ CatchSteps({"c1", "c2"}, Balls, Rolls)
    \/ \E pokemonId \in 1..Len(pokemon) :
            Len(spawns) < MaxSpawns /\ SpawnStart("admin", pokemonId)
    \/ SpawnCheck("admin")
    \/ SpawnInsert("admin")
    \/ ClearSteps

SpecBurst == InitBurst /\ [][NextBurst]_vars

(* SpecSpawn: one cycle of the scheduler overlapping one administrative
   trigger, with one chat command and the administrative clear, over a
   catalog of one legendary species. *)

LowRolls == {5, 900}

InitSpawn == InitStore(<<"legendary">>, {"alice"})

NextSpawn ==
    \/ Tick
    \/ CatchSteps({"c1"}, Balls, LowRolls)
    \/ spawners["scheduler"].pc = "idle" /\ SpawnStart("scheduler", 0)
    \/ \E pokemonId \in 0..Len(pokemon) :
            spawners["admin"].pc = "idle" /\ SpawnStart("admin", pokemonId)
    \/ \E s \in SpawnerIds : SpawnCheck(s)
    \/ \E s \in SpawnerIds, k \in 1..Max(1, Len(Bucket)) : SpawnPick(s, k)
    \/ \E s \in SpawnerIds : SpawnInsert(s)
    \/ ClearSteps

SpecSpawn == InitSpawn /\ [][NextSpawn]_vars

(* SpecChance: one catch attempt over every rarity tier, every ball and
   rolls around every threshold. *)

AllRolls == {0, 9, 10, 500, 699, 700, 900, 989, 990, 999}
AllBalls == {"pokeball", "greatball", "ultra", "masterball"}

InitChance == InitStore(<<"common", "uncommon", "rare", "legendary">>, {"alice"})

NextChance ==
    \/ CatchSteps({"c1"}, AllBalls, AllRolls)
    \/ \E pokemonId \in 1..Len(pokemon) :
            spawners["admin"].pc = "idle" /\ SpawnStart("admin", pokemonId)
    \/ SpawnCheck("admin")
    \/ SpawnInsert("admin")

SpecChance == InitChance /\ [][NextChance]_vars

----------------------------------------------------------------------------
(* Properties *)

\* the active spawn(s): uncaptured and not yet expired on the wall clock
ActiveNow(i) == spawns[i].captured_by = NoUser /\ spawns[i].expires_at > clock

\* invocation c has captured spawn i: its transaction committed
Won(c, i) ==
    \/ calls[c].pc = "committed" /\ calls[c].spawn = i
    \/ calls[c].pc = "done" /\ calls[c].res.ok /\ calls[c].res.spawnId = i

\* each spawn is won by at most one invocation, and its captor is that winner
AtMostOneCaptor ==
    \A i \in 1..Len(spawns) :
        /\ Cardinality({c \in CallIds : Won(c, i)}) <= 1
        /\ \A c \in CallIds : Won(c, i) => spawns[i].captured_by = calls[c].userId
        /\ spawns[i].captured_by # NoUser => \E c \in CallIds : Won(c, i)

\* C1: however the attemptCatch invocations interleave, each spawn is won by at
\* most one of them, its captor is that winner, and every other invocation
\* that has ended returned one of the failure reasons no_spawn,
\* already_captured, cooldown or failed.
C1_AtMostOneSuccess ==
    /\ AtMostOneCaptor
    /\ \A c \in CallIds :
        calls[c].pc = "done" /\ ~calls[c].res.ok =>
            calls[c].res.reason \in {"no_spawn", "already_captured", "cooldown", "failed"}

\* C2: at most one spawn record is uncaptured with its expiry later than the
\* current time.
C2_SingleActiveSpawn ==
    Cardinality({i \in 1..Len(spawns) : ActiveNow(i)}) <= 1

\* C3: a spawnOnce whose store check runs while a spawn that existed when the
\* call began is still active returns null and inserts nothing.
C3_NoSpawnWhileActive ==
    [][\A s \in SpawnerIds :
        (/\ spawners[s].pc = "check"
         /\ spawners'[s] # spawners[s]
         /\ \E i \in 1..spawners[s].rowsAtStart : ActiveNow(i))
        => /\ spawners'[s].pc = "done"
           /\ spawners'[s].res = 0
           /\ spawns' = spawns]_vars

C3_Witness ==
    \E s, t \in SpawnerIds :
        /\ s # t
        /\ spawners[s].pc = "done" /\ spawners[s].res = 0
        /\ spawners[t].pc = "done" /\ spawners[t].res # 0
        /\ \E i \in 1..spawners[s].rowsAtStart : ActiveNow(i)

\* C4: an attemptCatch of a participant without a participant record that
\* draws a winning roll on the spawn it locked commits: it is never aborted.
C4_FirstCaptureCommits ==
    \A c \in CallIds :
        calls[c].userId \notin users =>
            calls[c].pc # "aborted" /\ calls[c].res.reason # "threw"

\* C5: catchChance is min(0.99, baseRate * toolModifier) and never above 0.99;
\* the attempt takes the failed branch exactly when roll >= catchChance,
\* returns failed exactly from that branch, and the spawn is written only
\* with roll < catchChance (0.7 * 1.0: roll 0.5 captures, roll 0.9 fails).
C5_State ==
    \A c \in CallIds :
        LET k == calls[c] IN
        /\ k.pc \in {"update", "aborted", "committed", "rollback"} =>
            LET base == pokemon[spawns[k.spawn].pokemon_id].base_rate
                product == base * BallMod(k.ball)
            IN  /\ k.catchChance = (IF product < 990 THEN product ELSE 990)
                /\ k.catchChance <= 990
                /\ (k.pc = "rollback") <=> (k.roll >= k.catchChance)
                /\ (base = 70 /\ k.ball = "pokeball" /\ k.roll = 500) => k.pc # "rollback"
                /\ (base = 70 /\ k.ball = "pokeball" /\ k.roll = 900) => k.pc = "rollback"
        /\ k.res.reason = "failed" => k.res.roll >= k.res.catchChance

C5_Step ==
    \A c \in CallIds :
        /\ (calls'[c].res.reason = "failed" /\ calls[c].res.reason # "failed")
            <=> (calls[c].pc = "rollback" /\ calls'[c].pc # "rollback")
        /\ (calls'[c] # calls[c] /\ spawns' # spawns) =>
            /\ calls[c].pc = "update"
            /\ calls[c].roll < calls[c].catchChance
            /\ spawns'[calls[c].spawn].captured_by = calls[c].userId

C6_Step ==
    \A c \in CallIds :
        calls'[c] # calls[c] =>
            IF calls'[c].pc = "committed"
            THEN LET key == <<calls[c].userId, spawns[calls[c].spawn].pokemon_id>>
                     old == IF key \in DOMAIN pokedex THEN pokedex[key]
                            ELSE [count |-> 0, shiny_count |-> 0]
                 IN  /\ DOMAIN pokedex' = DOMAIN pokedex \cup {key}
                     /\ pokedex'[key].count = old.count + 1
                     /\ pokedex'[key].shiny_count =
                            old.shiny_count + (IF calls[c].isShiny THEN 1 ELSE 0)
                     /\ \A k \in DOMAIN pokedex \ {key} : pokedex'[k] = pokedex[k]
            ELSE /\ pokedex' = pokedex
                 /\ calls'[c].res.ok => calls[c].pc = "committed"

C6_OneEntryPerCapture == [][C6_Step]_vars

\* right after a capture that found the participant's entry for the species
\* and raised it to 2, shiny draw included
C6_Witness ==
    \E c \in CallIds :
        /\ calls[c].pc = "committed"
        /\ calls[c].isShiny
        /\ LET key == <<calls[c].userId, spawns[calls[c].spawn].pokemon_id>>
           IN  key \in DOMAIN pokedex /\ pokedex[key].count = 2
                /\ pokedex[key].shiny_count = 1

\* C7: no step of an attemptCatch changes the store except the commit of a
\* capture, and an invocation that committed returns success: one that returns
\* failed, no_spawn or cooldown has written nothing.
C7_Step ==
    \A c \in CallIds :
        calls'[c] # calls[c] =>
            /\ calls'[c].pc # "committed" => store' = store
            /\ calls[c].pc = "committed" => calls'[c].res.ok
            /\ calls'[c].res.reason \in {"failed", "no_spawn", "cooldown"} =>
                calls[c].pc \in {"idle", "norow", "rollback"}

C7_FailureWritesNothing == [][C7_Step]_vars

C7_Witness ==
    \E c, d \in CallIds :
        /\ calls[c].res.reason = "failed"
        /\ calls[d].res.reason \in {"no_spawn", "cooldown"}
        /\ Len(spawns) = 1 /\ spawns[1].captured_by = NoUser

\* C8: an attemptCatch that starts less than cooldownSeconds after the start
\* of the participant's preceding attempt that passed the cooldown check
\* returns cooldown.
C8_CooldownFromStart ==
    [][\A c \in CallIds :
        (calls[c].pc = "idle" /\ calls'[c].pc # "idle") =>
            LET u == calls'[c].userId
            IN  (u \in DOMAIN lastPass /\ clock - lastPass[u] < cooldownSeconds)
                    => calls'[c].res.reason = "cooldown"]_vars

\* C9: once a spawn is captured, its captor and capture time never change, it
\* is never active again, and no attemptCatch locks it again.
C9_Step ==
    \A i \in 1..Len(spawns) :
        spawns[i].captured_by # NoUser =>
            /\ Len(spawns') >= i
            /\ spawns'[i].captured_by = spawns[i].captured_by
            /\ spawns'[i].capture_at = spawns[i].capture_at
            /\ ~ActiveNow(i)'
            /\ \A c \in CallIds :
                (calls'[c].pc = "locked" /\ calls'[c].spawn = i) => calls[c].pc = "locked"

C9_CapturedIsTerminal == [][C9_Step]_vars

\* a captured spawn, later than its capture, after another attempt found nothing
C9_Witness ==
    \E i \in 1..Len(spawns), c \in CallIds :
        /\ spawns[i].captured_by # NoUser
        /\ clock > spawns[i].capture_at
        /\ calls[c].res.reason = "no_spawn"

\* C10: a spawn that is uncaptured and past its expiry is never marked
\* captured afterwards.
C10_ExpiredIsTerminal ==
    [][\A i \in 1..Len(spawns) :
        (spawns[i].captured_by = NoUser /\ spawns[i].expires_at <= clock)
            => spawns'[i].captured_by = NoUser]_vars

----------------------------------------------------------------------------
(* SpecBoard: leaderboard(limit) over the collections of three participants,
   some of whom may have no entry. *)

BoardUsers == {"alice", "bob", "carol"}
BoardLimits == 0..3
NoEntry == [count |-> 0, shiny_count |-> 0]
BoardEntries == {NoEntry, [count |-> 1, shiny_count |-> 0], [count |-> 3, shiny_count |-> 1],
                 [count |-> 4, shiny_count |-> 0], [count |-> 5, shiny_count |-> 2]}

InitLeaderboard ==
    /\ clock = cooldownSeconds
    /\ pokemon = Seed(<<"common", "common">>)
    /\ spawns = <<>>
    /\ users = BoardUsers
    /\ \E f \in [BoardUsers \X {1, 2} -> BoardEntries] :
            pokedex = [k \in {x \in DOMAIN f : f[x] # NoEntry} |-> f[k]]
    /\ cooldowns = [u \in {} |-> 0]
    /\ calls = [c \in CallIds |-> InitCall]
    /\ spawners = [s \in SpawnerIds |-> InitSpawner]
    /\ clears = [k \in ClearIds |-> [pc |-> "idle", now |-> 0]]
    /\ lastPass = [u \in {} |-> 0]
    /\ board = InitBoard
    /\ sender = InitSender
    /\ conn = InitConn
    /\ auto = InitAuto
    /\ tokens = InitTokens
    /\ mgr = InitMgr

NextBoard == \E limit \in BoardLimits : Leaderboard(limit)

SpecBoard == InitLeaderboard /\ [][NextBoard]_vars

\* the entry of (u, species), absent entries counting 0
EntryOf(u, species) ==
    IF <<u, species>> \in DOMAIN pokedex THEN pokedex[<<u, species>>] ELSE NoEntry

TotalCaught(u) == EntryOf(u, 1).count + EntryOf(u, 2).count
ShinyTotal(u) == EntryOf(u, 1).shiny_count + EntryOf(u, 2).shiny_count
HasEntries(u) == \E species \in 1..2 : <<u, species>> \in DOMAIN pokedex

\* C11: leaderboard(limit) returns at most limit rows, one per participant with
\* collection entries, each with the sums of that participant's counts and
\* shiny counts, by total descending, the participants left out having no
\* larger total than those returned (totals 5, 3, 9 and limit 2: 9 then 5).
C11_Leaderboard ==
    board.asked =>
        LET rows == board.rows
            n == Len(rows)
            with == {u \in BoardUsers : HasEntries(u)}
        IN  /\ n <= board.limit
            /\ n = Min(board.limit, Cardinality(with))
            /\ \A i \in 1..n :
                /\ rows[i].user_id \in with
                /\ rows[i].total_caught = TotalCaught(rows[i].user_id)
                /\ rows[i].shiny_total = ShinyTotal(rows[i].user_id)
            /\ \A i, j \in 1..n : i # j => rows[i].user_id # rows[j].user_id
            /\ \A i, j \in 1..n : i < j => rows[i].total_caught >= rows[j].total_caught
            /\ \A u \in with :
                    (\A i \in 1..n : rows[i].user_id # u) =>
                        \A i \in 1..n : TotalCaught(u) <= rows[i].total_caught
            /\ (/\ TotalCaught("alice") = 5 /\ TotalCaught("bob") = 3
                /\ TotalCaught("carol") = 9 /\ board.limit = 2)
                    => /\ n = 2
                       /\ rows[1].user_id = "carol" /\ rows[1].total_caught = 9
                       /\ rows[2].user_id = "alice" /\ rows[2].total_caught = 5

\* totals 5, 3, 9 asked with limit 2
C11_Witness ==
    /\ board.asked /\ board.limit = 2 /\ Len(board.rows) = 2
    /\ TotalCaught("alice") = 5 /\ TotalCaught("bob") = 3 /\ TotalCaught("carol") = 9
    /\ board.rows[1].total_caught = 9 /\ board.rows[2].total_caught = 5

----------------------------------------------------------------------------
(* SpecSender: the outbound delivery queue under any arrival of send() calls
   and any responses of the chat endpoint, with a stored expiry that may
   come due.  SpecSenderFair is the queue while the stored expiry stays valid,
   with every pending await of the drain loop returning. *)

NextSender == SenderSteps

SpecSender == Init /\ [][NextSender]_vars

DrainStep(p) ==
    \/ \E ready, renewed \in BOOLEAN : Prepare(p, ready, renewed)
    \/ \E status \in Statuses, header \in RetryHeaders :
            Respond(p, status, IF status = "rate" THEN header ELSE NoRetry)
    \/ RetryWait(p)
    \/ \E renewed \in BOOLEAN : Refresh(p, renewed)
    \/ Backoff(p)
    \/ Spacing(p)

\* the queue while the stored expiry stays valid
NextSenderFair ==
    \/ Send
    \/ \E p \in PumpIds : DrainStep(p)

SpecSenderFair ==
    Init /\ [][NextSenderFair]_vars /\ \A p \in PumpIds : WF_vars(DrainStep(p))

\* the drain loops that are inside sendNow
InSendNow == {p \in PumpIds : sender.pumps[p].pc \in {"prep", "post", "retryWait", "refresh"}}

\* C12: at most one sendNow is in flight at any time, however send() calls
\* arrive around a running drain, and at most one drain loop is active.
C12_OneSendInFlight ==
    /\ Cardinality(InSendNow) <= 1
    /\ Cardinality({p \in PumpIds : sender.pumps[p].pc # "idle"}) <= 1
    /\ (\E p \in PumpIds : sender.pumps[p].pc # "idle") <=> sender.sending

\* a send() arrived while the POST of an earlier message is in flight
C12_Witness ==
    /\ \E p \in PumpIds : sender.pumps[p].pc = "post"
    /\ Len(sender.q) = 2

Settled == {"delivered", "dropped"}

TriesOf(sd, m) == IF m <= Len(sd.tries) THEN sd.tries[m] ELSE 0

\* C13: a send attempt for message b starts only when every message accepted
\* before b has been delivered or dropped, and a message that is settled gets
\* no further attempt, so attempts of different messages never interleave.
C13_Step ==
    \A b \in 1..MaxMsgs :
        TriesOf(sender', b) > TriesOf(sender, b) =>
            /\ \A a \in 1..(b - 1) : sender.fate[a] \in Settled
            /\ b <= Len(sender.fate) => sender.fate[b] \notin Settled

C13_EnqueueOrder == [][C13_Step]_vars

\* the second message is being posted after the first was dropped, the third waits
C13_Witness ==
    /\ \E p \in PumpIds : sender.pumps[p].pc = "post" /\ sender.pumps[p].msg = 2
    /\ sender.fate[1] = "dropped"
    /\ sender.q = <<3>>

\* a message's attempts so far: at most 3; dropped only with 3, all failed;
\* delivered by the one attempt that succeeded, which is its last
C14_State ==
    /\ \A m \in 1..sender.accepted :
        /\ sender.tries[m] <= 3
        /\ sender.fate[m] = "dropped" => sender.tries[m] = 3
        /\ sender.fate[m] = "delivered" => sender.tries[m] >= 1
    /\ \A p \in PumpIds :
        LET k == sender.pumps[p] IN
        k.pc # "idle" =>
            /\ sender.tries[k.msg] = k.attempts
            /\ \A i \in 1..Len(k.hist) :
                    k.hist[i] = "ok" => i = Len(k.hist) /\ sender.fate[k.msg] = "delivered"
            /\ sender.fate[k.msg] = "dropped" =>
                    Len(k.hist) = 3 /\ \A i \in 1..3 : k.hist[i] # "ok"
            /\ sender.fate[k.msg] \in Settled <=> k.pc = "spacing"

\* a settled message is never touched again, and the message a drain loop
\* takes next is the oldest one waiting
C14_Step ==
    /\ \A m \in 1..sender.accepted :
        sender.fate[m] \in Settled =>
            sender'.fate[m] = sender.fate[m] /\ sender'.tries[m] = sender.tries[m]
    /\ \A p \in PumpIds :
        (sender.pumps[p].pc = "spacing" /\ sender'.pumps[p].pc # "spacing" /\ Len(sender.q) > 0)
            => sender'.pumps[p].msg = Head(sender.q) /\ sender'.pumps[p].pc = "prep"

\* C14: every accepted message is eventually delivered, by one successful send
\* after which it is not sent again, or dropped after exactly 3 failed attempts;
\* none gets more than 3 attempts; after a drop the queue takes the next message.
C14_EveryMessageSettles ==
    /\ []C14_State
    /\ [][C14_Step]_vars
    /\ \A m \in 1..MaxMsgs :
            (sender.accepted >= m) ~> (sender.accepted >= m /\ sender.fate[m] \in Settled)

\* the first message was dropped, the second delivered at its second attempt
C14_Witness ==
    /\ sender.accepted >= 2
    /\ sender.fate[1] = "dropped" /\ sender.tries[1] = 3
    /\ sender.fate[2] = "delivered" /\ sender.tries[2] = 2

\* rate-limited on attempts 1 and 2, success on attempt 3: delivered once, on
\* the third attempt, never dropped or sent again
C15_Delivery ==
    /\ \A p \in PumpIds :
        LET k == sender.pumps[p] IN
        (k.hist = <<"rate", "rate">> /\ k.pc = "post" /\ sender'.pumps[p].hist = <<"rate", "rate", "ok">>)
            => /\ sender'.fate[k.msg] = "delivered"
               /\ sender'.tries[k.msg] = 3
               /\ sender'.pumps[p].pc = "spacing"
    /\ \A m \in 1..sender.accepted :
        sender.fate[m] = "delivered" =>
            sender'.fate[m] = "delivered" /\ sender'.tries[m] = sender.tries[m]

\* the attempt that follows a rate-limited one has waited at least need(header)
WaitedAfterRate(need(_)) ==
    \A p \in PumpIds :
        LET k == sender.pumps[p] IN
        (k.pc = "prep" /\ k.attempts >= 2 /\ k.hist[Len(k.hist)] = "rate")
            => k.waited >= need(k.retry)

ServerDelay(h) == IF h.kind = "seconds" THEN h.value * 1000 ELSE 0

BoundedDelay(h) ==
    IF h.kind = "seconds"
    THEN (IF h.value * 1000 < 1000 THEN 1000
          ELSE IF h.value * 1000 > 10000 THEN 10000 ELSE h.value * 1000)
    ELSE IF h.kind = "absent" THEN 2000
    ELSE 0

Unauthorized(k) == {i \in 1..Len(k.hist) : k.hist[i] = "unauth"}

\* C23: every 401 response is followed by a call of refreshAccessToken before
\* the next attempt of the message is entered, whether the stored expiry is
\* valid or due, and the 401 attempt is one of the message's 3 attempts.
C23_RefreshAfterUnauthorized ==
    \A p \in PumpIds :
        LET k == sender.pumps[p] IN
        k.pc # "idle" =>
            /\ k.pc = "refresh" =>
                    /\ k.hist[Len(k.hist)] = "unauth"
                    /\ k.refreshes = Cardinality(Unauthorized(k)) - 1
            /\ k.pc # "refresh" => k.refreshes = Cardinality(Unauthorized(k))
            /\ k.attempts = Len(k.hist) + (IF k.pc \in {"prep", "post"} THEN 1 ELSE 0)
            /\ k.attempts <= 3

\* the second attempt of a message is being posted after a 401 that met a
\* stored expiry still valid, and the refresh was called in between
C23_Witness ==
    \E p \in PumpIds :
        LET k == sender.pumps[p] IN
        /\ k.hist = <<"unauth">> /\ k.at401 = "valid"
        /\ k.pc = "post" /\ k.attempts = 2 /\ k.refreshes = 1

\* C24: when a POST is sent and one was sent before, whether for the same
\* message or for the one before it and whatever its outcome, timers of at
\* least 350 ms in total have run out since that earlier POST was sent.
C24_Step ==
    \A p \in PumpIds :
        (sender.pumps[p].pc = "prep" /\ sender'.pumps[p].pc = "post" /\ sender.posted)
            => sender.gap >= 350

C24_MinimumSpacing == [][C24_Step]_vars

\* the first attempt of the second message is about to be posted; the first
\* message was delivered by its first attempt
C24_Witness ==
    \E p \in PumpIds :
        /\ sender.pumps[p].pc = "post" /\ sender.pumps[p].msg = 2
        /\ sender.pumps[p].attempts = 1
        /\ sender.fate[1] = "delivered" /\ sender.tries[1] = 1

\* C25: the wait of the 429 branch is between 1000 ms and 10000 ms for every
\* retry-after header (absent, zero, negative, very large, not a number), and
\* the rate-limited attempt is one of the message's 3 attempts.
C25_RetryWaitWithinBounds ==
    \A p \in PumpIds :
        LET k == sender.pumps[p] IN
        k.pc = "retryWait" =>
            /\ WaitMs(k.retry) >= 1000 /\ WaitMs(k.retry) <= 10000
            /\ k.hist[Len(k.hist)] = "rate"
            /\ k.attempts = Len(k.hist) /\ k.attempts <= 3

----------------------------------------------------------------------------
(* SpecConn: the ingestion connector under any sequence of socket events,
   starts and stops. *)

NextConn == ConnSteps

SpecConn == Init /\ [][NextConn]_vars

\* C16: the connection drops since the last successful connection have each
\* scheduled exactly one reconnect, and the delays of these reconnects are
\* non-decreasing and at most 30000 ms, whatever the jitter.
C16_ReconnectBackoff ==
    /\ Len(conn.delays) = conn.drops
    /\ \A i \in 1..Len(conn.delays) : conn.delays[i] <= 30000
    /\ \A i, j \in 1..Len(conn.delays) : i < j => conn.delays[i] <= conn.delays[j]

\* five drops in a row: the fifth reconnect waits the cap
C16_Witness ==
    /\ conn.drops = 5 /\ Len(conn.delays) = 5
    /\ conn.delays[1] = 2499 /\ conn.delays[2] = 4000 /\ conn.delays[5] = 30000

\* C26: the open listener sets the attempt counter to zero, so the first
\* reconnect scheduled after a socket opened waits the initial delay
\* (1000 * 2^1 ms plus jitter), however many reconnects preceded the opening.
C26_State ==
    Len(conn.delays) >= 1 => \E jitter \in Jitters : conn.delays[1] = 2000 + jitter

C26_Step ==
    \A i \in 1..Len(conn.socks) :
        (conn.socks[i].state = "connecting" /\ conn'.socks[i].state = "open")
            => conn'.attempts = 0

C26_OpenResetsAttempts == []C26_State /\ [][C26_Step]_vars

\* a socket opened after two reconnects in a row and then dropped: one
\* reconnect is scheduled
C26_Witness ==
    /\ conn.preceding >= 2
    /\ conn.drops = 1 /\ Len(conn.delays) = 1 /\ conn.timers = 1

(* SpecConnFair: the connector's connections under any sequence of opens,
   errors, closes, starts and stops, frames left aside; a timer that is armed
   fires and a socket on which close() was called delivers its close event. *)

CloseEvent ==
    \E i \in 1..Len(conn.socks), jitter \in Jitters :
        conn.socks[i].state = "closing" /\ SockClose(i, jitter)

NextConnFair ==
    \/ \E room \in Rooms : StartKickConnector(room)
    \/ \E i \in 1..Len(conn.socks) : SockOpen(i)
    \/ \E i \in 1..Len(conn.socks) : SockError(i)
    \/ \E i \in 1..Len(conn.socks), jitter \in Jitters : SockClose(i, jitter)
    \/ ReconnectTimer
    \/ StopKickConnector

SpecConnFair ==
    Init /\ [][NextConnFair]_vars /\ WF_vars(ReconnectTimer) /\ WF_vars(CloseEvent)

\* the current socket was dropped (an error made the connector close it, or
\* its close event was delivered) and no stop was requested
Dropped == /\ conn.ws # 0 /\ conn.socks[conn.ws].state \in {"closing", "closed"}
           /\ ~conn.stopped

\* a close event without a stop schedules one reconnect; a socket that is
\* created subscribes to the cached chatroomId, which a reconnect leaves as
\* it was
C27_Step ==
    /\ \A i \in 1..Len(conn.socks) :
            (conn.socks[i].state # "closed" /\ conn'.socks[i].state = "closed" /\ ~conn.stopped)
                => conn'.timers = conn.timers + 1
    /\ Len(conn'.socks) > Len(conn.socks) =>
            /\ conn'.ws = Len(conn'.socks)
            /\ conn'.socks[conn'.ws].room = conn'.room
            /\ conn'.timers < conn.timers => conn'.room = conn.room /\ conn.room \in Rooms

\* C27: when the connection closes or errors and no stop was requested, a
\* reconnect is scheduled and a new connection to the same cached chatroomId
\* is eventually attempted (or a stop is requested first).
C27_ReconnectsAfterDrop ==
    /\ [][C27_Step]_vars
    /\ (Dropped /\ Len(conn.socks) < MaxConns)
            ~> (conn.stopped \/ (conn.ws # 0 /\ conn.socks[conn.ws].state = "connecting"))

\* the third socket, created by the reconnect timer after the first two were
\* dropped in a row, is connecting to the chatroom the connector was started with
C27_Witness ==
    /\ Len(conn.socks) = 3 /\ conn.ws = 3 /\ conn.socks[3].state = "connecting"
    /\ conn.socks[1].state = "dead" /\ conn.socks[2].state = "dead"
    /\ conn.socks[3].room = "r2" /\ conn.room = "r2"
    /\ conn.timers = 0 /\ conn.attempts = 2 /\ conn.drops = 2

----------------------------------------------------------------------------
(* SpecConnV1: the earlier draft of the connector under any sequence of
   socket events, starts and stops. *)

NextConnV1 == ConnStepsV1

SpecConnV1 == Init /\ [][NextConnV1]_vars

\* C17: once stopKickConnector has been called and until startKickConnector is
\* called again, no connection is opened, no reconnect is scheduled and the
\* message handler is not invoked, whatever timer was pending and whatever
\* socket event arrives.
C17_Step ==
    (conn.halted /\ conn'.halted) =>
        /\ Len(conn'.socks) = Len(conn.socks)
        /\ conn'.timers <= conn.timers
        /\ conn'.invoked = conn.invoked

C17_StopIsFinal == [][C17_Step]_vars

----------------------------------------------------------------------------
(* SpecFrames: the committed connector receiving frames of every shape over
   its one connection. *)

NextFrames == ConnStepsV0

SpecFrames == Init /\ [][NextFrames]_vars

\* the frame is a chat-message event carrying a non-empty sender identity and
\* a non-empty text
ChatMessage(f) ==
    /\ f.parses /\ f.event = "chat" /\ f.data \in {"object", "json"}
    /\ f.sender = "name" /\ f.content = "text"

\* C28: the handler is invoked for a frame only if the frame is a chat-message
\* event with a non-empty sender identity and a non-empty text; every other
\* frame is discarded without a call of the handler.
C28_OnlyChatMessagesForwarded ==
    conn.handed.called => ChatMessage(conn.last)

----------------------------------------------------------------------------
(* SpecAuto: the auto spawner started and stopped at any time, its cycles
   calling spawnOnce against a store the administrator may clear. *)

NextAuto ==
    \/ StartAutoSpawner
    \/ \E which \in {"handle", "orphan"} : Len(spawns) < MaxSpawns /\ AutoTimer(which)
    \/ SpawnCheck("scheduler")
    \/ \E k \in 1..Max(1, Len(Bucket)) : SpawnPick("scheduler", k)
    \/ SpawnInsert("scheduler")
    \/ SpawnFail("scheduler")
    \/ \E raised \in BOOLEAN : AutoFinally(raised)
    \/ StopAutoSpawner
    \/ ClearSteps

SpecAuto == InitSpawn /\ [][NextAuto]_vars

\* C18: once stopAutoSpawner has been called and until startAutoSpawner is
\* called again, the scheduler starts no spawnOnce and no timer is scheduled; a
\* cycle in flight at the stop completes without a successor.
C18_Step ==
    (auto.halted /\ auto'.halted) =>
        /\ ~(spawners["scheduler"].pc \in {"idle", "done"}
                /\ spawners'["scheduler"].pc = "check")
        /\ ~(auto'.inflight /\ ~auto.inflight)
        /\ Pending(auto') <= Pending(auto)

C18_StopAutoSpawner == [][C18_Step]_vars

----------------------------------------------------------------------------
(* SpecHandler: chat frames carrying "!catch" reach the handler over one
   connection while the administrator creates a spawn; alice has a
   participant record, bob has none. *)

NextHandler ==
    \/ \E room \in Rooms : conn.ws = 0 /\ StartKickConnector(room)
    \/ \E i \in 1..Len(conn.socks) : SockOpen(i)
    \/ \E i \in 1..Len(conn.socks), c \in {"c1", "c2"}, u \in Participants :
            SockMessageCatch(i, c, u)
    \/ CatchProgress({"c1", "c2"}, Balls, Rolls)
    \/ \E c \in {"c1", "c2"} : HandlerEnd(c)
    \/ \E pokemonId \in 1..Len(pokemon) :
            spawners["admin"].pc = "idle" /\ SpawnStart("admin", pokemonId)
    \/ SpawnCheck("admin")
    \/ SpawnInsert("admin")

SpecHandler == Init /\ [][NextHandler]_vars

\* the connection is open with its listeners in place
Subscribed == conn.ws # 0 /\ conn.socks[conn.ws].state = "open" /\ conn.socks[conn.ws].listeners

C19_State ==
    /\ ~conn.crashed
    /\ (\E c \in CallIds : conn.handling[c] = "caught") => Subscribed

C19_Step ==
    \A c \in CallIds :
        (/\ conn.handling[c] = "running"
         /\ calls[c].pc \in {"aborted", "done"}
         /\ calls[c].pc = "done" => calls[c].res.reason = "threw"
         /\ (calls'[c] # calls[c] \/ conn'.handling[c] # "running"))
            => /\ conn'.socks = conn.socks /\ conn'.ws = conn.ws
               /\ conn'.stopped = conn.stopped /\ conn'.timers = conn.timers
               /\ conn'.handling[c] \in {"running", "caught"}

\* C19: an exception raised inside the message handler for one frame is
\* caught there: the process and the connection are left as they were, still
\* subscribed, so that later frames reach the handler.
C19_HandlerExceptionContained == []C19_State /\ [][C19_Step]_vars

\* a frame was forwarded to the handler after an exception of an earlier one
\* had been caught
C19_Witness ==
    /\ conn.after >= 1
    /\ \E c \in CallIds : conn.handling[c] = "caught" /\ calls[c].res.reason = "threw"
    /\ Subscribed

----------------------------------------------------------------------------
\* C20: across every step of spawnOnce, attemptCatch and the administrative
\* clear, no collection entry is deleted and neither its count nor its shiny
\* count decreases.
C20_Step ==
    \A k \in DOMAIN pokedex :
        /\ k \in DOMAIN pokedex'
        /\ pokedex'[k].count >= pokedex[k].count
        /\ pokedex'[k].shiny_count >= pokedex[k].shiny_count

C20_EntriesOnlyGrow == [][C20_Step]_vars

\* a participant's entry with a shiny capture has grown by a capture that was
\* not shiny, next to another entry
C20_Witness ==
    \E k \in DOMAIN pokedex :
        /\ pokedex[k].count = 2 /\ pokedex[k].shiny_count = 1
        /\ \E c \in CallIds : calls[c].pc = "committed" /\ ~calls[c].isShiny
                                /\ calls[c].userId = k[1]
                                /\ spawns[calls[c].spawn].pokemon_id = k[2]
        /\ Cardinality(DOMAIN pokedex) >= 1

----------------------------------------------------------------------------
\* C21: an attemptCatch rejected with reason cooldown at time t leaves t as
\* the participant's last-attempt timestamp in cooldowns.
C21_RejectionRecorded ==
    [][\A c \in CallIds :
        (calls[c].pc = "idle" /\ calls'[c].res.reason = "cooldown") =>
            LET u == calls'[c].userId
            IN  u \in DOMAIN cooldowns' /\ cooldowns'[u] = clock]_vars

\* C22: when a statement of attemptCatch's transaction raises, nothing of the
\* transaction is kept in the store and, once the call has thrown, the
\* participant's cooldown timestamp is the time of that attempt.
C22_AbortRecordsCooldown ==
    [][\A c \in CallIds :
        (calls[c].pc = "aborted" /\ calls'[c].res.reason = "threw") =>
            LET u == calls[c].userId
            IN  /\ store' = store
                /\ u \in DOMAIN cooldowns' /\ cooldowns'[u] = calls[c].nowMs]_vars

----------------------------------------------------------------------------
\* C29: while the scheduler is running, the end of every cycle, whether
\* spawnOnce produced a spawn, returned null or threw, or broadcastFn raised,
\* schedules exactly one timer, and nothing else but startAutoSpawner schedules
\* one; broadcastFn is called once for a cycle that produced a spawn and not
\* for any other.
C29_Step ==
    LET ends == auto.inflight /\ ~auto'.inflight
        sp == spawners["scheduler"]
    IN  /\ (ends /\ auto.running) => Pending(auto') = Pending(auto) + 1
        /\ Pending(auto') > Pending(auto) =>
                /\ Pending(auto') = Pending(auto) + 1
                /\ ends \/ (~auto.running /\ auto'.running)
        /\ ends => auto'.broadcasts =
                        auto.broadcasts + (IF sp.res # 0 /\ ~sp.threw THEN 1 ELSE 0)
        /\ auto'.broadcasts # auto.broadcasts => ends

C29_EveryCycleReschedules == [][C29_Step]_vars

\* cycles have ended in each of the four ways and the scheduler, still
\* running, has its next timer pending
C29_Witness ==
    /\ auto.seen = {"spawn", "noop", "error", "raise"}
    /\ auto.running /\ ~auto.inflight /\ ~auto.halted
    /\ Pending(auto) = 1 /\ auto.broadcasts = 2

\* C30: whatever the sequence of startAutoSpawner and stopAutoSpawner calls,
\* a stop followed by a start during a cycle in flight included, at most one
\* scheduler loop exists: never more than one scheduler timer is pending.
C30_SingleSchedulerLoop == Pending(auto) <= 1

----------------------------------------------------------------------------
(* SpecDraw: the scheduler's spawnOnce drawing a species from every catalog
   of up to MaxSpecies rows over the four tiers. *)

Tiers == {"common", "uncommon", "rare", "legendary"}

Catalogs == UNION {[1..n -> Tiers] : n \in 0..MaxSpecies}

InitDraw == \E rarities \in Catalogs : InitStore(rarities, {"alice"})

NextDraw ==
    \/ spawners["scheduler"].pc = "idle" /\ SpawnStart("scheduler", 0)
    \/ SpawnCheck("scheduler")
    \/ \E k \in 1..Max(1, Len(Bucket)) : SpawnPick("scheduler", k)
    \/ SpawnInsert("scheduler")

SpecDraw == InitDraw /\ [][NextDraw]_vars

\* the slots of species i in the bucket
Slots(b, i) == Cardinality({k \in 1..Len(b) : b[k] = i})

\* one hundred times the tier's weight
Weight100(rarity) ==
    CASE rarity = "common" -> 100
      [] rarity = "uncommon" -> 60
      [] rarity = "rare" -> 20
      [] rarity = "legendary" -> 5

\* C34: in the bucket of the draw every species has 100 times its tier weight
\* slots (common 100, uncommon 60, rare 20, legendary 5), so the chances of
\* two species are in the ratio of their tier weights and species of one tier
\* are equally likely; the draw takes one slot of the bucket.
C34_State ==
    LET b == Bucket
        slots == [i \in 1..Len(pokemon) |-> Slots(b, i)]
    IN  /\ \A i \in 1..Len(pokemon) : slots[i] = Weight100(pokemon[i].rarity)
        /\ \A i, j \in 1..Len(pokemon) :
                /\ slots[i] * Weight100(pokemon[j].rarity) = slots[j] * Weight100(pokemon[i].rarity)
                /\ pokemon[i].rarity = pokemon[j].rarity => slots[i] = slots[j]
        /\ \A k \in 1..Len(b) : b[k] \in 1..Len(pokemon)

C34_Step ==
    (spawners["scheduler"].pc = "pick" /\ spawners'["scheduler"].pc = "insert")
        => LET b == Bucket IN spawners'["scheduler"].pid \in {b[k] : k \in 1..Len(b)}

C34_RarityWeightedDraw == []C34_State /\ [][C34_Step]_vars

\* from a catalog of a common, a rare and a legendary species the draw has
\* taken the legendary one
C34_Witness ==
    /\ Len(pokemon) = 3
    /\ pokemon[1].rarity = "common" /\ pokemon[2].rarity = "rare"
    /\ pokemon[3].rarity = "legendary"
    /\ Len(Bucket) = 125
    /\ spawners["scheduler"].pc = "insert" /\ spawners["scheduler"].pid = 3

\* spawn records of species pid whose captor is u
CapturesOf(u, pid) ==
    Cardinality({i \in 1..Len(spawns) :
                    spawns[i].captured_by = u /\ spawns[i].pokemon_id = pid})

\* C36: a collection entry's count is the number of spawn records of that
\* species captured by that participant (no entry counting as zero), and the
\* captor of every captured spawn has a participant record.
C36_CollectionMatchesCaptures ==
    /\ \A u \in Participants, pid \in 1..Len(pokemon) :
            (IF <<u, pid>> \in DOMAIN pokedex THEN pokedex[<<u, pid>>].count ELSE 0)
                = CapturesOf(u, pid)
    /\ \A i \in 1..Len(spawns) :
            spawns[i].captured_by # NoUser => spawns[i].captured_by \in users

\* of three spawns alice has captured one of species 1, bob one of species 2,
\* and the third is still free
C36_Witness ==
    /\ Len(spawns) = 3
    /\ CapturesOf("alice", 1) = 1 /\ CapturesOf("bob", 2) = 1
    /\ DOMAIN pokedex = {<<"alice", 1>>, <<"bob", 2>>}
    /\ \E i \in 1..Len(spawns) : spawns[i].captured_by = NoUser

\* the sockets that are not yet closed and still have the listeners attached
LiveSockets ==
    {i \in 1..Len(conn.socks) :
        conn.socks[i].listeners /\ conn.socks[i].state \in {"connecting", "open", "closing"}}

C40_State ==
    /\ Cardinality(LiveSockets) <= 1
    /\ LiveSockets \subseteq {conn.ws}

C40_Step ==
    conn'.frames > conn.frames
        => /\ conn.ws \in LiveSockets /\ conn.socks[conn.ws].state = "open"
           /\ \A i \in 1..Len(conn.socks) :
                i # conn.ws => ~(conn.socks[i].state = "open" /\ conn.socks[i].listeners)

\* C40: the connector holds at most one live socket with listeners attached,
\* whatever the order of start, stop, close, error and reconnect-timer events,
\* a start issued while a reconnect timer set before a stop is pending
\* included; a frame reaches the handler from the one current connection only.
C40_AtMostOneLiveSocket == []C40_State /\ [][C40_Step]_vars

\* after a stop the connector was started again while a reconnect timer set
\* before the stop was pending; the timer has fired and replaced the socket
\* of the start, and a frame has arrived on the replacement
C40_Witness ==
    /\ ~conn.stopped /\ conn.revived /\ conn.timers = 0
    /\ Len(conn.socks) = 3
    /\ conn.socks[1].state = "dead" /\ conn.socks[2].state = "dead"
    /\ conn.ws = 3 /\ conn.socks[3].state = "open"
    /\ conn.frames = 1

----------------------------------------------------------------------------
(* SpecTokens: the periodic tick and the chat sender calling the token
   manager over every content of the three token rows, with and without
   CLIENT_ID / CLIENT_SECRET configured. *)

InitTokenRows ==
    \E access \in {0, 1}, refresh \in {0, 1}, creds \in BOOLEAN,
       expiry \in {NoExpiry} \cup {[at |-> t, of |-> 1] : t \in 0..(MaxNow + 1)} :
        /\ tokens = [InitTokens EXCEPT !.access = access, !.refresh = refresh,
                                       !.expiry = expiry]
        /\ mgr = [InitMgr EXCEPT !.creds = creds]

InitTokenManager == InitParts(<<"common", "common">>, {"alice"}) /\ InitTokenRows

NextTokens == TokenSteps

SpecTokens == InitTokenManager /\ [][NextTokens]_vars

\* C31: getValidAccessToken refreshes and returns the result, the error
\* propagating, when the token or the expiry is missing; returns the stored
\* token without refresh and without write when its expiry is more than 60 s
\* away; within 60 s of the expiry refreshes and returns the new token, or
\* the stored one if the refresh fails.
C31_Step ==
    \A c \in Callers :
        (mgr.inv[c].pc = "readExpiry" /\ mgr'.inv[c].pc # "readExpiry") =>
            LET token == mgr.inv[c].token
                expiry == tokens.expiry
                after == mgr'.inv[c]
            IN  /\ (token = 0 \/ expiry = NoExpiry)
                        => after.pc = "refresh" /\ after.mode = "must"
                /\ (token # 0 /\ expiry # NoExpiry /\ expiry.at - mgr.now > 1)
                        => /\ after.pc = "done" /\ after.out = "stored"
                           /\ after.ret = token /\ tokens' = tokens
                /\ (token # 0 /\ expiry # NoExpiry /\ expiry.at - mgr.now <= 1)
                        => after.pc = "refresh" /\ after.mode = "try"

C31_State ==
    \A c \in Callers :
        LET iv == mgr.inv[c]
        IN  (iv.pc = "done" /\ ~iv.direct) =>
                /\ iv.mode = "none" => iv.out = "stored" /\ iv.wrote = 0 /\ iv.step = 0
                /\ iv.mode = "must" =>
                        /\ iv.out \in {"refreshed", "threw"}
                        /\ iv.out = "refreshed" => iv.ret = iv.resp.id /\ iv.ret # 0
                /\ iv.mode = "try" =>
                        /\ iv.out \in {"refreshed", "fallback"}
                        /\ iv.out = "refreshed" => iv.ret = iv.resp.id /\ iv.ret # 0
                        /\ iv.out = "fallback" => iv.ret = iv.token /\ iv.ret # 0

C31_DecisionTable == []C31_State /\ [][C31_Step]_vars

\* a token one minute from its expiry was refreshed and the new one returned,
\* while the other caller, whose refresh failed, got the stored one
C31_Witness ==
    /\ mgr.inv["periodic"].pc = "done" /\ mgr.inv["periodic"].mode = "try"
    /\ mgr.inv["periodic"].out = "refreshed" /\ mgr.inv["periodic"].ret = 2
    /\ mgr.inv["periodic"].exp.at - mgr.inv["periodic"].retAt = 1
    /\ mgr.inv["demand"].pc = "done" /\ mgr.inv["demand"].out = "fallback"
    /\ mgr.inv["demand"].ret = 1

\* C32: when getValidAccessToken returns the stored token because the refresh
\* failed, the expiry stored for that token has not passed.
C32_FallbackStillValid ==
    \A c \in Callers :
        (mgr.inv[c].pc = "done" /\ mgr.inv[c].out = "fallback")
            => mgr.inv[c].retAt <= mgr.inv[c].exp.at

\* C33: a refresh's writes look atomic to a concurrent getValidAccessToken: a
\* call never reads the access token from before the refresh with the expiry
\* from after it and returns the old token as fresh.
C33_NoOldTokenWithNewExpiry ==
    \A c \in Callers :
        (mgr.inv[c].pc = "done" /\ mgr.inv[c].out = "stored")
            => mgr.inv[c].exp.of <= mgr.inv[c].token

\* no refreshAccessToken is between its first read and its return
NoCallRunning == \A c \in Callers : mgr.inv[c].pc \in {"idle", "done"}

\* C38: after two overlapping refreshAccessToken executions the stored access
\* token, refresh token and expiry all come from the same response.
C38_RecordFromOneResponse ==
    (NoCallRunning /\ \A c \in Callers : mgr.inv[c].out = "refreshed")
        => /\ tokens.expiry.of = tokens.access
           /\ \A c \in Callers :
                (mgr.inv[c].resp.id = tokens.access /\ mgr.inv[c].resp.rot)
                    => tokens.refresh = tokens.access

\* the call of c has ended with refreshAccessToken throwing
RefreshFailed(iv) == iv.pc = "done" /\ iv.out \in {"threw", "fallback"}

C39_State ==
    \A c \in Callers :
        /\ RefreshFailed(mgr.inv[c]) => mgr.inv[c].wrote = 0
        /\ mgr.inv[c].wrote > 0 => mgr.inv[c].resp.id # 0

C39_Step ==
    /\ \A c \in Callers :
            (~RefreshFailed(mgr.inv[c]) /\ RefreshFailed(mgr'.inv[c])) => tokens' = tokens
    /\ tokens' # tokens =>
            \E c \in Callers : /\ mgr.inv[c].pc = "stores" /\ mgr.inv[c].resp.id # 0
                               /\ mgr'.inv[c].wrote = mgr.inv[c].wrote + 1

\* C39: a refreshAccessToken that fails (no refresh token, no client
\* credentials, a failing endpoint, a response without access_token) leaves
\* the stored access token, refresh token and expiry as they were: it has
\* written nothing, and every write is that of a refresh whose response
\* carries an access token.
C39_FailedRefreshWritesNothing == []C39_State /\ [][C39_Step]_vars

\* the sender's refresh got a response without access_token and threw, the
\* periodic call's request failed and it fell back; the rows are untouched
C39_Witness ==
    /\ mgr.inv["demand"].direct /\ mgr.inv["demand"].out = "threw"
    /\ mgr.inv["demand"].step = 1 /\ mgr.inv["demand"].resp.id = 0
    /\ mgr.inv["periodic"].out = "fallback"
    /\ tokens.access = 1 /\ tokens.refresh = 1 /\ tokens.expiry = [at |-> 1, of |-> 1]

\* C35: handleChatMessage enqueues exactly one reply for every "!catch"
\* message (as for "!pokedex" and "!leaderboard"), whatever the outcome of the
\* engine call: the replies accepted by the chat sender are as many as the
\* command messages whose handling has ended.
C35_OneReplyPerCommand ==
    sender.accepted = Cardinality({c \in CallIds : conn.handling[c] \in {"replied", "caught"}})

----------------------------------------------------------------------------
(* SpecRoom: sends of the chat sender looking up the chat-room id while the
   administrator stores a new one. *)

InitRoom ==
    /\ InitParts(<<"common", "common">>, {"alice"})
    /\ \E room \in Rooms : tokens = [InitTokens EXCEPT !.chatroom = room]
    /\ \E cached \in BOOLEAN :
            mgr = [InitMgr EXCEPT !.cache = IF cached THEN tokens.chatroom ELSE NoRoom]

NextRoom == RoomSteps

SpecRoom == InitRoom /\ [][NextRoom]_vars

\* C37: once POST /admin/set-chatroom has been answered, every send that
\* starts afterwards is addressed to the id it stored, even if an earlier
\* send's lookup was in flight while the request ran.
C37_SendsUseNewChatroom ==
    \A s \in SendIds :
        (mgr.look[s].pc = "done" /\ mgr.look[s].after)
            => mgr.look[s].to = mgr.look[s].latest

====
